---- MODULE Spec2Model ----
(***************************************************************************)
(* SparkRadarWXAPI: the data parser (dataparser.js) that merges the        *)
(* global-model (OWM) document, the national-service (NWS) document, the   *)
(* alert feed, the SPC outlooks and the mesoscale discussions into one     *)
(* response for a point; around it the log file (logging.js), the         *)
(* /onecall handlers of the three servers and the outlook cache.           *)
(*                                                                         *)
(* JavaScript values are tagged records: Undefined, Null, NaN, Num(n) and  *)
(* Str(w), where w is the text as a sequence of words.  Numbers are fixed  *)
(* point integers; the unit of every field is stated where it is read.     *)
(***************************************************************************)
EXTENDS Integers, Sequences, FiniteSets, TLC

VARIABLES
    pc,               \* position of the running call
    point,            \* <<lon, lat>>, the query point
    polygon,          \* argument of a direct pointInPolygon call
    text,             \* argument of a direct parseWeatherCondition or findColorForAlert call
    result,           \* return value of a direct call of a pure function
    raw_owm,          \* global-model document
    raw_nws,          \* national-service document
    raw_alerts,       \* alert feed
    spc_outlooks,     \* list of outlook documents
    raw_mcd,          \* mesoscale-discussion feed
    now,              \* the clock read by the call, in minutes
    zone,             \* the time zone of the process
    risks,            \* forecasts.spc under construction
    parsedMcds,       \* mesoscale_discussions under construction
    parsedalerts,     \* alerts under construction
    minutelyforecast, \* forecasts.minutely under construction
    hourlyforecast,   \* forecasts.hourly under construction
    dailyforecast,    \* forecasts.daily under construction
    nwsindex,         \* running index into the NWS flat series
    dayi,             \* number of model days the daily loop has visited
    slots,            \* per daily record, the NWS slots its values were read from
    parsedData,       \* the returned NormalizedForecast
    loglevel,         \* LOG_LEVEL of the process
    logFile,          \* app.log, as its sequence of lines
    logCalls,         \* number of logMessage calls made directly
    handler,          \* which server file runs: "index", "timer" or "retry"
    apiKey,           \* process.env.API_KEY
    req,              \* the query of the /onecall request: key, lat, lon
    hpc,              \* position of the /onecall handler
    fetches,          \* the upstream fetches the handler has started, in order
    status,           \* owm_status, nws_status, alerts_status, spc_d1..3_status
    responses,        \* the HTTP responses sent for the request, in order
    home,             \* the HTTP responses sent for requests of GET /, in order
    appErrors,        \* number of 'error' events of the app handled
    spcCache,         \* spc_cache.json: Undefined while the file does not exist
    upc,              \* per refresh started, the position of its updateSpcCache
    fetched,          \* per refresh started, the outlook data it has fetched
    refreshes,        \* number of refreshes started
    cachedDays        \* the days for which some refresh stored a document

\* The state of a parseWeatherData call (and of the direct calls).
parser == <<pc, point, polygon, text, result, raw_owm, raw_nws, raw_alerts, spc_outlooks,
            raw_mcd, now, zone, risks, parsedMcds, parsedalerts, minutelyforecast,
            hourlyforecast, dailyforecast, nwsindex, dayi, slots, parsedData>>

\* The state of the server around it: the log, the request, the cache.
logging == <<loglevel, logFile, logCalls>>
request == <<handler, apiKey, req, hpc, fetches, status, responses, home, appErrors>>
cache == <<spcCache, upc, fetched, refreshes, cachedDays>>
server == <<logging, request, cache>>

vars == <<parser, server>>

(***************************************************************************)
(* JavaScript values                                                       *)
(***************************************************************************)
Undefined == [t |-> "undefined"]
Null == [t |-> "null"]
NaN == [t |-> "NaN"]
Num(n) == [t |-> "number", n |-> n]
Str(w) == [t |-> "string", w |-> w]

IsNum(v) == v.t = "number"
IsStr(v) == v.t = "string"

\* JavaScript truthiness of the values above: 0, NaN, "", null and undefined
\* are falsy.  Records without a tag are objects, which are truthy.
Truthy(v) ==
    IF "t" \notin DOMAIN v THEN TRUE
    ELSE CASE v.t = "number" -> v.n # 0
           [] v.t = "string" -> v.w # <<>>
           [] OTHER -> FALSE

\* a || b
Or(a, b) == IF Truthy(a) THEN a ELSE b

\* Number(v) as the arithmetic operators coerce it: null is 0, undefined and
\* a non-numeric string are NaN.  (The vocabulary of Str holds no numerals.)
ToNumber(v) ==
    CASE v.t = "number" -> v
      [] v.t = "null" -> Num(0)
      [] v.t = "string" -> IF v.w = <<>> THEN Num(0) ELSE NaN
      [] OTHER -> NaN

(***************************************************************************)
(* Geometry                                                                *)
(***************************************************************************)
\* One iteration of the loop of pointInRing: does the edge from ring[j] to
\* ring[i] cross the ray to the right of the point?  The code divides by
\* (yj - yi), which the first conjunct makes non-zero; multiplying the
\* comparison by it keeps the arithmetic in the integers.
intersect(px, py, xi, yi, xj, yj) ==
    /\ (yi > py) # (yj > py)
    /\ IF yj - yi > 0
          THEN (px - xi) * (yj - yi) < (xj - xi) * (py - yi)
          ELSE (px - xi) * (yj - yi) > (xj - xi) * (py - yi)

\* inside is toggled once per crossing edge, j running one behind i and
\* starting at the last vertex.
pointInRing(pt, ring) ==
    LET n == Len(ring)
        j(i) == IF i = 1 THEN n ELSE i - 1
        crossing == {i \in 1..n :
                        intersect(pt[1], pt[2], ring[i][1], ring[i][2],
                                  ring[j(i)][1], ring[j(i)][2])}
    IN Cardinality(crossing) % 2 = 1

\* pointInPolygon without the loop over the hole rings.
pointInPolygonIgnoringHoles(pt, poly) ==
    IF Len(poly) = 0 THEN FALSE
    ELSE pointInRing(pt, poly[1])

pointInPolygon(pt, poly) ==
    IF Len(poly) = 0 THEN FALSE
    ELSE IF ~pointInRing(pt, poly[1]) THEN FALSE
    ELSE \A i \in 2..Len(poly) : ~pointInRing(pt, poly[i])

(***************************************************************************)
(* Safe-parse helpers                                                      *)
(***************************************************************************)
\* parseInt / parseFloat of the values above.  Every number of the model is
\* an integer in the fixed-point unit of its field, so neither truncates.
safeParseInt(value) ==
    IF IsNum(value) THEN value ELSE Null

safeParseFloat(value) ==
    IF IsNum(value) THEN value ELSE Null

(***************************************************************************)
(* Condition classifier                                                    *)
(***************************************************************************)
\* The classifier keywords that occur as substrings of the lower-cased
\* spelling of each word of the vocabulary.  No keyword holds a space, so
\* text.toLowerCase().includes(k) is decided word by word.
Keywords(word) ==
    CASE word \in {"Light", "light"} -> {"light"}
      [] word \in {"Heavy", "heavy"} -> {"heavy"}
      [] word \in {"Rain", "rain"} -> {"rain"}
      [] word \in {"Snow", "snow"} -> {"snow"}
      [] word \in {"Showers", "showers", "Shower", "shower"} -> {"shower"}
      [] word \in {"Thunderstorm", "Thunderstorms", "thunderstorm"} -> {"thunder", "storm"}
      [] word \in {"Storm", "storm"} -> {"storm"}
      [] word \in {"Thunder", "thunder"} -> {"thunder"}
      [] word \in {"Fog", "fog"} -> {"fog"}
      [] word \in {"Mist", "mist"} -> {"mist"}
      [] word \in {"Haze", "haze"} -> {"haze"}
      [] word \in {"Hazy", "hazy"} -> {"hazy"}
      [] word \in {"Cloudy", "Clouds", "clouds", "cloudy"} -> {"cloud"}
      [] word \in {"Mostly", "mostly"} -> {"mostly"}
      [] word \in {"Partly", "partly"} -> {"partly"}
      [] word \in {"Broken", "broken"} -> {"broken"}
      [] word \in {"Clear", "clear"} -> {"clear"}
      [] word \in {"Sunny", "sunny", "Sun"} -> {"sun"}
      [] word \in {"Fair", "fair"} -> {"fair"}
      [] OTHER -> {}

\* A search that looks at the first word only.
includesAtStart(w, k) == Len(w) >= 1 /\ k \in Keywords(w[1])

includes(w, k) == \E i \in 1..Len(w) : k \in Keywords(w[i])

\* The shower branch defaulting to rain when the text names neither rain nor
\* snow.
showerConditionDefaulted(w) ==
    IF includes(w, "light") THEN
        IF includes(w, "snow") /\ ~includes(w, "rain")
           THEN [condition |-> "Light Snow Showers", code |-> 611]
           ELSE [condition |-> "Light Rain Showers", code |-> 612]
    ELSE IF includes(w, "heavy") THEN
        IF includes(w, "snow") /\ ~includes(w, "rain")
           THEN [condition |-> "Heavy Snow Showers", code |-> 631]
           ELSE [condition |-> "Heavy Rain Showers", code |-> 632]
    ELSE
        IF includes(w, "snow") /\ ~includes(w, "rain")
           THEN [condition |-> "Snow Showers", code |-> 621]
           ELSE [condition |-> "Rain Showers", code |-> 622]

\* Lines 156-177, the branch of a text that includes "shower": undefined
\* where it falls off the end of the function.
showerCondition(w) ==
    IF includes(w, "light") THEN
        IF includes(w, "rain") THEN [condition |-> "Light Rain Showers", code |-> 612]
        ELSE IF includes(w, "snow") THEN [condition |-> "Light Snow Showers", code |-> 611]
        ELSE Undefined
    ELSE IF includes(w, "heavy") THEN
        IF includes(w, "rain") THEN [condition |-> "Heavy Rain Showers", code |-> 632]
        ELSE IF includes(w, "snow") THEN [condition |-> "Heavy Snow Showers", code |-> 631]
        ELSE Undefined
    ELSE
        IF includes(w, "rain") THEN [condition |-> "Rain Showers", code |-> 622]
        ELSE IF includes(w, "snow") THEN [condition |-> "Snow Showers", code |-> 621]
        ELSE Undefined

Throw == [t |-> "throw"]

\* Returns Null, a {condition, code} record, Undefined where the shower branch
\* falls off the end of the function, or Throw when the text is a truthy value
\* that is no string (it has no toLowerCase).
parseWeatherCondition(conditiontext) ==
    IF ~Truthy(conditiontext) THEN Null
    ELSE IF ~IsStr(conditiontext) THEN Throw
    ELSE LET w == conditiontext.w IN
    IF includes(w, "shower") THEN showerCondition(w)
    ELSE IF includes(w, "rain") THEN
        IF includes(w, "light") THEN [condition |-> "Light Rain", code |-> 611]
        ELSE IF includes(w, "heavy") THEN [condition |-> "Heavy Rain", code |-> 613]
        ELSE [condition |-> "Rain", code |-> 612]
    ELSE IF includes(w, "snow") THEN
        IF includes(w, "light") THEN [condition |-> "Light Snow", code |-> 621]
        ELSE IF includes(w, "heavy") THEN [condition |-> "Heavy Snow", code |-> 623]
        ELSE [condition |-> "Snow", code |-> 622]
    ELSE IF includes(w, "storm") \/ includes(w, "thunder") THEN
        IF includes(w, "light") THEN [condition |-> "Light Storm", code |-> 631]
        ELSE IF includes(w, "heavy") THEN [condition |-> "Heavy Storm", code |-> 633]
        ELSE [condition |-> "Storm", code |-> 632]
    ELSE IF includes(w, "fog") \/ includes(w, "mist") THEN [condition |-> "Fog", code |-> 800]
    ELSE IF includes(w, "haze") \/ includes(w, "hazy") THEN [condition |-> "Haze", code |-> 700]
    ELSE IF includes(w, "cloud") THEN
        IF includes(w, "mostly") THEN [condition |-> "Mostly Cloudy", code |-> 540]
        ELSE IF includes(w, "partly") \/ includes(w, "broken") THEN [condition |-> "Partly Cloudy", code |-> 330]
        ELSE [condition |-> "Cloudy", code |-> 500]
    ELSE IF includes(w, "clear") \/ includes(w, "sun") \/ includes(w, "fair") THEN
        IF includes(w, "mostly") THEN [condition |-> "Mostly Clear", code |-> 240]
        ELSE IF includes(w, "partly") THEN [condition |-> "Partly Cloudy", code |-> 330]
        ELSE [condition |-> "Clear", code |-> 100]
    ELSE Null

\* { condition: "Unknown", code: 0, raw: raw }
Unknown(raw) == [condition |-> "Unknown", code |-> 0, raw |-> raw]

\* a() || b() || c() over results that may be Throw: evaluation stops at the
\* first truthy operand and an operand that throws ends it.
OrT(a, b) == IF a = Throw THEN Throw ELSE IF Truthy(a) THEN a ELSE b

(***************************************************************************)
(* Logging (logging.js)                                                    *)
(***************************************************************************)
\* The levels in the order of the list in line 19.
Levels == <<"debug", "info", "warn", "error">>

\* [...].indexOf(level): the position from 0, -1 for a level not in the list.
indexOf(level) ==
    IF \E i \in 1..Len(Levels) : Levels[i] = level
       THEN (CHOOSE i \in 1..Len(Levels) : Levels[i] = level) - 1
       ELSE 0 - 1

\* The file keeps this many lines.
LogCap == 1000

\* The truncation left out.
keepEverything(lines) == lines

\* Lines 45-49: at LogCap lines or more, only the first LogCap - 1 are kept.
keepLatest(lines) ==
    IF Len(lines) >= LogCap THEN SubSeq(lines, 1, LogCap - 1) ELSE lines

\* `[${timestamp}] ${level.toUpperCase()}: ${message}`: one line of the file.
logEntry(message, level) == [level |-> level, message |-> message]

\* logMessage(message, level, loglevel) on the file lines: nothing below the
\* configured level is written; the new entry goes first.
logMessage(lines, message, level, configured) ==
    IF indexOf(level) < indexOf(configured) THEN lines
    ELSE <<logEntry(message, level)>> \o keepLatest(lines)

\* logMessage called for each entry of calls in turn.
RECURSIVE logAll(_, _, _)
logAll(lines, calls, configured) ==
    IF calls = <<>> THEN lines
    ELSE logAll(logMessage(lines, calls[1].message, calls[1].level, configured),
                Tail(calls), configured)

\* The words of a text, a blank between them.
RECURSIVE joined(_)
joined(w) ==
    IF w = <<>> THEN ""
    ELSE IF Len(w) = 1 THEN w[1]
    ELSE w[1] \o " " \o joined(Tail(w))

\* `${value}` in a template literal.
template(value) ==
    IF "t" \notin DOMAIN value THEN "[object Object]"
    ELSE CASE value.t = "null" -> "null"
           [] value.t = "undefined" -> "undefined"
           [] value.t = "NaN" -> "NaN"
           [] value.t = "string" -> joined(value.w)
           [] value.t = "number" -> ToString(value.n)
           [] OTHER -> "[object Object]"

\* Line 152, the first statement of parseWeatherCondition:
\* logMessage(`Parsing weather condition from text: ${conditiontext}`, 'debug', loglevel).
conditionCall(conditiontext) ==
    logEntry("Parsing weather condition from text: " \o template(conditiontext), "debug")

\* The calls of line 152 made by parseWeatherCondition(t1) || parseWeatherCondition(t2)
\* ... over the texts in turn: evaluation stops at the first call that
\* returns a truthy value or throws.
RECURSIVE chainCalls(_)
chainCalls(texts) ==
    IF texts = <<>> THEN <<>>
    ELSE LET r == parseWeatherCondition(texts[1]) IN
         <<conditionCall(texts[1])>>
            \o (IF r = Throw \/ Truthy(r) THEN <<>> ELSE chainCalls(Tail(texts)))

\* e.message of the errors the sections raise.
InvalidTime == "Invalid time value"
NoToLowerCase == "conditiontext.toLowerCase is not a function"
cannotRead(value, name) ==
    "Cannot read properties of " \o template(value) \o " (reading '" \o name \o "')"

\* The catch of a section: logMessage(`Unable to parse ${section}: ${e.message}`, 'warn', loglevel).
warnCall(section, message) ==
    logEntry("Unable to parse " \o section \o ": " \o message, "warn")

(***************************************************************************)
(* SPC risks                                                               *)
(***************************************************************************)
Arr(a) == [t |-> "array", a |-> a]
IsArr(v) == "t" \in DOMAIN v /\ v.t = "array"
Nullish(v) == "t" \in DOMAIN v /\ v.t \in {"null", "undefined"}

\* A geometry is [type, shape, coordinates].  shape tells how the coordinates
\* are formed: "ok" (coordinates is a polygon, or a sequence of polygons for
\* a MultiPolygon), "undefined" (no coordinates member) or "nullring" (the
\* first ring of the first polygon is null).

\* Whether walking the geometry raises a TypeError: forEach / for-of over
\* missing MultiPolygon coordinates, or ring.length of a null ring.
geometryThrows(geometry) ==
    \/ geometry.type = "MultiPolygon" /\ geometry.shape # "ok"
    \/ geometry.type = "Polygon" /\ geometry.shape = "nullring"

\* Whether some polygon of the geometry contains the point.
geometryContains(pt, geometry) ==
    CASE geometry.type = "Polygon" ->
            geometry.shape = "ok" /\ pointInPolygon(pt, geometry.coordinates)
      [] geometry.type = "MultiPolygon" ->
            /\ geometry.shape = "ok"
            /\ \E k \in 1..Len(geometry.coordinates) :
                  pointInPolygon(pt, geometry.coordinates[k])
      [] OTHER -> FALSE

\* properties.DN ?? 0
DNof(feature) ==
    IF Nullish(feature.properties.DN) THEN 0 ELSE feature.properties.DN.n

\* A containing feature always replaces the best one: the last one wins.
replacesBestAlways(feature, bestFeature) == TRUE

\* !bestFeature || (properties.DN ?? 0) > (bestFeature.properties.DN ?? 0)
replacesBest(feature, bestFeature) ==
    bestFeature = Null \/ DNof(feature) > DNof(bestFeature)

\* The forEach over outlook.features from position i on: Throw, or the
\* bestFeature it ends with (Null when none).
RECURSIVE scanFeatures(_, _, _, _)
scanFeatures(pt, features, i, bestFeature) ==
    IF i > Len(features) THEN bestFeature
    ELSE LET feature == features[i] IN
         IF Nullish(feature) \/ ~Truthy(feature.geometry) \/ ~Truthy(feature.properties)
            THEN scanFeatures(pt, features, i + 1, bestFeature)
         ELSE IF geometryThrows(feature.geometry) THEN Throw
         ELSE IF geometryContains(pt, feature.geometry) /\ replacesBest(feature, bestFeature)
            THEN scanFeatures(pt, features, i + 1, feature)
         ELSE scanFeatures(pt, features, i + 1, bestFeature)

\* outlook?.features?.forEach(...): nothing for a null outlook or one with no
\* features member, a TypeError for a features member that is no array.
bestFeatureOf(pt, outlook) ==
    IF Nullish(outlook) THEN Null
    ELSE IF Nullish(outlook.features) THEN Null
    ELSE IF ~IsArr(outlook.features) THEN Throw
    ELSE scanFeatures(pt, outlook.features.a, 1, Null)

NoneLevel == Str(<<"NONE">>)
NoneDescription == Str(<<"No thunderstorms forecast for this location.">>)

\* Instants are minutes since the epoch; a UTC day has MinutesPerDay of them.
MinutesPerDay == 24 * 60

\* The time zone of the process is [before, after, at]: the minutes its local
\* time is ahead of UTC before and from the instant at, where its offset
\* changes; a zone that keeps its offset has before = after.
offsetAt(z, instant) == IF instant >= z.at THEN z.after ELSE z.before

\* LocalTime(t): the local wall-clock reading of an instant.
localTime(z, instant) == instant + offsetAt(z, instant)

\* UTC(t): the instant of a local wall-clock reading.  A reading that the
\* change of offset skips or repeats is taken with the offset before it.
utcOf(z, wall) ==
    IF wall - z.before >= z.at /\ wall - z.after >= z.at THEN wall - z.after
    ELSE wall - z.before

\* new Date().setDate(new Date().getDate() + i): the local calendar day moves
\* on by i days and the local time of day stays.
setDateOf(z, clock, i) == utcOf(z, localTime(z, clock) + i * MinutesPerDay)

\* toISOString().split('T')[0] of an instant: its UTC calendar date, kept as
\* the number of the day since the epoch.
isoDate(instant) == instant \div MinutesPerDay

\* The record pushed for outlook number i (0-based) by a call that reads the
\* clock at clock in zone z (lines 262-277).
riskRecord(bestFeature, i, clock, z) ==
    IF bestFeature # Null
       THEN [date |-> isoDate(setDateOf(z, clock, i)),
             level |-> bestFeature.properties.LABEL,
             description |-> bestFeature.properties.LABEL2,
             color |-> bestFeature.properties.fill,
             altcolor |-> bestFeature.properties.stroke]
       ELSE [date |-> isoDate(setDateOf(z, clock, i)),
             level |-> NoneLevel,
             description |-> NoneDescription,
             color |-> Null,
             altcolor |-> Null]

\* spc_outlooks.forEach from outlook k on, acc the risks pushed so far.
RECURSIVE scanOutlooks(_, _, _, _, _, _)
scanOutlooks(pt, outlooks, k, acc, clock, z) ==
    IF k > Len(outlooks) THEN Arr(acc)
    ELSE LET best == bestFeatureOf(pt, outlooks[k]) IN
         IF best = Throw THEN Throw
         ELSE scanOutlooks(pt, outlooks, k + 1,
                           Append(acc, riskRecord(best, k - 1, clock, z)), clock, z)

\* Lines 234-280: Throw, or the risks array.
parseSpcRisks(pt, outlooks, clock, z) ==
    IF IsArr(outlooks) THEN scanOutlooks(pt, outlooks.a, 1, <<>>, clock, z) ELSE Arr(<<>>)

(***************************************************************************)
(* Mesoscale discussions                                                   *)
(***************************************************************************)
Digit(c) ==
    CASE c = "0" -> 0 [] c = "1" -> 1 [] c = "2" -> 2 [] c = "3" -> 3
      [] c = "4" -> 4 [] c = "5" -> 5 [] c = "6" -> 6 [] c = "7" -> 7
      [] c = "8" -> 8 [] c = "9" -> 9 [] OTHER -> -1

\* folderpath is Undefined or [till, token]: whether the text holds "Till",
\* and the characters that follow it once "UTC" and the blanks are removed.
\* timeStr is that token, or null when there is no "Till" or nothing after.
timeStrOf(folderpath) ==
    IF Nullish(folderpath) THEN <<>>
    ELSE IF folderpath.till THEN folderpath.token ELSE <<>>

\* timeStr && /^\d{4}$/.test(timeStr)
isHHMM(timeStr) ==
    Len(timeStr) = 4 /\ \A k \in 1..4 : Digit(timeStr[k]) >= 0

\* new Date(idp_filedate) is a valid date for a number and for null, which is
\* the epoch; undefined, NaN and a text that is no date give an invalid one.
validDate(v) == IsNum(v) \/ v = Null

\* The instant of new Date(idp_filedate), for a valid date.
dateOf(v) == IF v = Null THEN Num(0) ELSE v

\* Date.UTC(year, month, day of the issue date, hh, mm, 0), in minutes; Null
\* when the token is malformed or the issue date invalid.
expiresDateOf(mcd) ==
    LET timeStr == timeStrOf(mcd.properties.folderpath)
        issue == dateOf(mcd.properties.idp_filedate)
    IN IF isHHMM(timeStr) /\ validDate(mcd.properties.idp_filedate)
          THEN Num((issue.n \div MinutesPerDay) * MinutesPerDay
                   + (Digit(timeStr[1]) * 10 + Digit(timeStr[2])) * 60
                   + Digit(timeStr[3]) * 10 + Digit(timeStr[4]))
          ELSE Null

\* The temporal filter with now < expiry.
isActiveBeforeExpiry(clock, expiresDate) ==
    IF expiresDate = Null THEN TRUE ELSE clock < expiresDate.n

\* expiresDate ? now <= expiresDate : true
isActiveByTime(clock, expiresDate) ==
    IF expiresDate = Null THEN TRUE ELSE clock <= expiresDate.n

mcdRecord(mcd) ==
    [geometry |-> mcd.geometry,
     number |-> Or(safeParseInt(mcd.properties.name), Null),
     issued |-> dateOf(mcd.properties.idp_filedate),
     expires |-> expiresDateOf(mcd),
     url |-> Or(mcd.properties.popupinfo, Null),
     title |-> Or(mcd.properties.folderpath, Or(mcd.properties.name, Null))]

\* e.message of the TypeError that walking the geometry raises: for-of over
\* missing coordinates, or ring.length of a null ring.
geometryError(geometry) ==
    IF geometry.type = "MultiPolygon" /\ geometry.shape = "undefined"
       THEN "geometry.coordinates is not iterable"
       ELSE cannotRead(Null, "length")

\* The forEach over raw_mcd.data.features from position i on.  A feature with
\* properties is modelled; the result is [threw, out, message]: whether an
\* error left the loop, the records pushed until then, and e.message.
RECURSIVE scanMcds(_, _, _, _, _)
scanMcds(pt, clock, features, i, acc) ==
    IF i > Len(features) THEN [threw |-> FALSE, out |-> acc, message |-> ""]
    ELSE LET mcd == features[i] IN
         IF ~Truthy(mcd.geometry) THEN scanMcds(pt, clock, features, i + 1, acc)
         ELSE IF geometryThrows(mcd.geometry)
            THEN [threw |-> TRUE, out |-> acc, message |-> geometryError(mcd.geometry)]
         ELSE IF geometryContains(pt, mcd.geometry)
                 /\ isActiveByTime(clock, expiresDateOf(mcd))
            THEN IF ~validDate(mcd.properties.idp_filedate)
                    \* new Date(undefined).toISOString() is a RangeError
                    THEN [threw |-> TRUE, out |-> acc, message |-> InvalidTime]
                    ELSE scanMcds(pt, clock, features, i + 1, Append(acc, mcdRecord(mcd)))
         ELSE scanMcds(pt, clock, features, i + 1, acc)

\* Lines 283-340; the catch keeps what was pushed before the error.
parseMcds(pt, clock, mcdDoc) ==
    IF Nullish(mcdDoc) THEN <<>>
    ELSE IF Nullish(mcdDoc.data) THEN <<>>
    ELSE IF Nullish(mcdDoc.data.features) THEN <<>>
    ELSE IF ~IsArr(mcdDoc.data.features) THEN <<>>
    ELSE scanMcds(pt, clock, mcdDoc.data.features.a, 1, <<>>).out

\* Line 339: the call of logMessage in the catch, when the section raised.
mcdCalls(pt, clock, mcdDoc) ==
    IF Nullish(mcdDoc) THEN <<>>
    ELSE IF Nullish(mcdDoc.data) THEN <<>>
    ELSE IF Nullish(mcdDoc.data.features) THEN <<>>
    ELSE IF ~IsArr(mcdDoc.data.features)
       THEN <<warnCall("MCDs", "raw_mcd?.data?.features?.forEach is not a function")>>
    ELSE LET r == scanMcds(pt, clock, mcdDoc.data.features.a, 1, <<>>)
         IN IF r.threw THEN <<warnCall("MCDs", r.message)>> ELSE <<>>

(***************************************************************************)
(* Alerts                                                                  *)
(***************************************************************************)
\* The default branch testing "Watch" before "Warning".
defaultColorWatchFirst(event) ==
    IF \E k \in 1..Len(event) : event[k] \in {"Watch", "Watches"} THEN "#FFA500"
    ELSE IF \E k \in 1..Len(event) : event[k] \in {"Warning", "Warnings"} THEN "#FF0000"
    ELSE "#FFCC00"

\* Lines 110-117, the default branch of the switch: event.includes("Warning"),
\* then event.includes("Watch"), over the words of the event names.
defaultColor(event) ==
    IF \E k \in 1..Len(event) : event[k] \in {"Warning", "Warnings"} THEN "#FF0000"
    ELSE IF \E k \in 1..Len(event) : event[k] \in {"Watch", "Watches"} THEN "#FFA500"
    ELSE "#FFCC00"

findColorForAlert(event) ==
    CASE event = <<"Air", "Quality", "Alert">> -> "#768b00"
      [] event = <<"Avalanche", "Warning">> -> "#ff00ff"
      [] event = <<"Dust", "Advisory">> -> "#706e00"
      [] event = <<"Dust", "Storm", "Warning">> -> "#776b00"
      [] event = <<"Flash", "Flood", "Emergency">> -> "#00ff00"
      [] event = <<"Flash", "Flood", "Warning">> -> "#00ff00"
      [] event = <<"Flood", "Advisory">> -> "#00538b"
      [] event = <<"Flood", "Warning">> -> "#1E90FF"
      [] event = <<"Flood", "Watch">> -> "#60fd82"
      [] event = <<"Marine", "Weather", "Statement">> -> "#690083"
      [] event = <<"PDS", "Tornado", "Warning">> -> "#e900dd"
      [] event = <<"Severe", "Thunderstorm", "Warning">> -> "#f1a500"
      [] event = <<"Snow", "Squall", "Warning">> -> "#0096aa"
      [] event = <<"Special", "Marine", "Warning">> -> "#8b3300"
      [] event = <<"Special", "Weather", "Statement">> -> "#eeff00"
      [] event = <<"Tornado", "Emergency">> -> "#9f00e9"
      [] event = <<"Tornado", "Warning">> -> "#e90000"
      [] event = <<"Tropical", "Storm", "Watch">> -> "#3f0072"
      [] event = <<"Winter", "Storm", "Warning">> -> "#00d4ff"
      [] event = <<"Winter", "Weather", "Advisory">> -> "#0087af"
      [] event = <<"Winter", "Storm", "Watch">> -> "#00aaff"
      [] event = <<"Ice", "Storm", "Warning">> -> "#0047ab"
      [] event = <<"High", "Wind", "Warning">> -> "#ff8000"
      [] event = <<"Extreme", "Cold", "Warning">> -> "#00ffff"
      [] event = <<"Heat", "Advisory">> -> "#ff7000"
      [] event = <<"Heat", "Warning">> -> "#ff2000"
      [] event = <<"Red", "Flag", "Warning">> -> "#ff00c8ff"
      [] event = <<"Extreme", "Wind", "Warning">> -> "#d400ffff"
      [] OTHER -> defaultColor(event)

\* event.toLowerCase().includes("outlook")
isOutlook(event) ==
    \E k \in 1..Len(event) : event[k] \in {"Outlook", "outlook", "OUTLOOK", "Outlooks"}

\* text.replace(/\n\n/g, "\n").replace(/\n/g, " ") over a text whose line
\* breaks are the words "\n": each pair of breaks, left to right, becomes one
\* break, and then every break a blank.
RECURSIVE collapseNewlines(_)
collapseNewlines(w) ==
    IF w = <<>> THEN <<>>
    ELSE IF Len(w) >= 2 /\ w[1] = "\n" /\ w[2] = "\n"
       THEN <<" ">> \o collapseNewlines(SubSeq(w, 3, Len(w)))
    ELSE IF w[1] = "\n" THEN <<" ">> \o collapseNewlines(Tail(w))
    ELSE <<w[1]>> \o collapseNewlines(Tail(w))

\* Whether building the record of one alert raises a TypeError: properties
\* present with an event, description or instruction that is no string.
alertThrows(alert) ==
    /\ ~Nullish(alert)
    /\ ~Nullish(alert.properties)
    /\ \/ ~IsStr(alert.properties.event)
       \/ ~isOutlook(alert.properties.event.w)
          /\ (~IsStr(alert.properties.description) \/ ~IsStr(alert.properties.instruction))

\* The field p of alert?.properties, undefined when either is missing.
alertProp(alert, p) ==
    IF Nullish(alert) THEN Undefined
    ELSE IF Nullish(alert.properties) THEN Undefined
    ELSE alert.properties[p]

alertRecord(alert) ==
    LET event == alertProp(alert, "event")
        description == alertProp(alert, "description")
        instruction == alertProp(alert, "instruction")
    IN [properties |->
            [id |-> Or(alertProp(alert, "id"), Null),
             issued |-> Or(alertProp(alert, "sent"), Null),
             start |-> Or(alertProp(alert, "effective"), Null),
             end |-> Or(alertProp(alert, "expires"), Null),
             severity |-> Or(alertProp(alert, "severity"), Null)],
        product |->
            [areas |-> Or(alertProp(alert, "areaDesc"), Null),
             event |-> Or(event, Null),
             color |-> findColorForAlert(IF Truthy(event) THEN event.w ELSE <<>>),
             headline |-> Or(alertProp(alert, "headline"), Null),
             description |-> IF IsStr(description)
                                THEN Or(Str(collapseNewlines(description.w)), Null)
                                ELSE Null,
             instructions |-> IF IsStr(instruction)
                                 THEN Or(Str(collapseNewlines(instruction.w)), Null)
                                 ELSE Null]]

\* The forEach over raw_alerts.features from position i on; stops at the
\* first error, keeping what was pushed.
RECURSIVE scanAlerts(_, _, _)
scanAlerts(features, i, acc) ==
    IF i > Len(features) THEN acc
    ELSE LET alert == features[i] IN
         IF alertThrows(alert) THEN acc
         ELSE IF Truthy(alertProp(alert, "event")) /\ isOutlook(alertProp(alert, "event").w)
            THEN scanAlerts(features, i + 1, acc)
         ELSE scanAlerts(features, i + 1, Append(acc, alertRecord(alert)))

\* Lines 342-367.
parseAlerts(alertDoc) ==
    IF Nullish(alertDoc) THEN <<>>
    ELSE IF Nullish(alertDoc.features) THEN <<>>
    ELSE IF ~IsArr(alertDoc.features) THEN <<>>
    ELSE scanAlerts(alertDoc.features.a, 1, <<>>)

\* e.message of the TypeError of value.method() for a value that is no string.
noMethod(value, expression, method) ==
    IF Nullish(value) THEN cannotRead(value, method)
    ELSE expression \o "." \o method \o " is not a function"

\* e.message of the error that alertThrows(alert) tells of: the event is read
\* first (line 345), then the description and the instruction (lines 361-362).
alertError(alert) ==
    IF ~IsStr(alert.properties.event)
       THEN noMethod(alert.properties.event, "alert?.properties?.event", "toLowerCase")
    ELSE IF ~IsStr(alert.properties.description)
       THEN noMethod(alert.properties.description, "alert?.properties?.description", "replace")
    ELSE noMethod(alert.properties.instruction, "alert?.properties?.instruction", "replace")

\* The call of logMessage in the catch, for the first alert from position i
\* on that raises.
RECURSIVE scanAlertCalls(_, _)
scanAlertCalls(features, i) ==
    IF i > Len(features) THEN <<>>
    ELSE IF alertThrows(features[i])
       THEN <<warnCall("alerts", alertError(features[i]))>>
    ELSE scanAlertCalls(features, i + 1)

\* Line 366.
alertsCalls(alertDoc) ==
    IF Nullish(alertDoc) THEN <<>>
    ELSE IF Nullish(alertDoc.features) THEN <<>>
    ELSE IF ~IsArr(alertDoc.features)
       THEN <<warnCall("alerts", "raw_alerts?.features?.forEach is not a function")>>
    ELSE scanAlertCalls(alertDoc.features.a, 1)

(***************************************************************************)
(* Minutely and hourly forecasts                                           *)
(***************************************************************************)
\* obj?.field: undefined when obj is null or undefined.  Objects of the model
\* carry every field they may have, a missing one being Undefined.
Get(obj, field) == IF Nullish(obj) THEN Undefined ELSE obj[field]

\* Whether new Date((dt || 0) * 1000).toISOString() raises a RangeError: the
\* date is invalid when dt is truthy and no number.
isoThrows(dt) == Truthy(dt) /\ ~IsNum(dt)

\* new Date((dt || 0) * 1000).toISOString(), as the instant in seconds.
isoOf(dt) == IF Truthy(dt) THEN dt ELSE Num(0)

\* a * b, a + b of numbers; NaN when an operand is NaN.
Times(a, k) == IF IsNum(ToNumber(a)) THEN Num(ToNumber(a).n * k) ELSE NaN
Plus(a, k) == IF IsNum(a) THEN Num(a.n + k) ELSE NaN

\* Doubles.  A value of the model is an exact decimal X / S.  The double the
\* program holds for it keeps 53 bits, so it may lie just below or just above
\* X / S: that decides what parseInt and toFixed make of it.

\* The e with 2^e <= X / S < 2^(e + 1), for X > 0.
RECURSIVE exponentUp(_, _, _)
exponentUp(X, S, e) == IF S <= X \div 2 THEN exponentUp(X, S * 2, e + 1) ELSE e
RECURSIVE exponentDown(_, _, _)
exponentDown(X, S, m) == IF X >= S THEN 0 - m ELSE exponentDown(X * 2, S, m + 1)
floorLog2(X, S) == IF X >= S THEN exponentUp(X, S, 0) ELSE exponentDown(X, S, 0)

RECURSIVE powerOfTwo(_)
powerOfTwo(k) == IF k = 0 THEN 1 ELSE 2 * powerOfTwo(k - 1)
RECURSIVE powerOfTwoMod(_, _)
powerOfTwoMod(k, m) == IF k = 0 THEN 1 % m ELSE (2 * powerOfTwoMod(k - 1, m)) % m

\* (X * 2^k) mod 2S: below S, what X / S has beyond the bit of weight 2^-k
\* (in units of 1 / (S * 2^k)); from S on, the same with that bit set.
gridPosition(X, S, k) == ((X % (2 * S)) * powerOfTwoMod(k, 2 * S)) % (2 * S)

\* The last bit of the double of F / S has the weight 2^-lastBit(F, S).
lastBit(F, S) == 52 - floorLog2(F, S)

\* The double nearest to F / S (ties to even) minus F / S, in units of
\* 1 / (S * 2^lastBit(F, S)).
literalError(F, S) ==
    LET R == gridPosition(F, S, lastBit(F, S))
        r == R % S
    IN IF 2 * r > S \/ (2 * r = S /\ R >= S) THEN S - r ELSE 0 - r

\* Whether the double that holds X / S is at or above X / S.  With v = 0 the
\* double is that of the literal X / S; otherwise it is the product of the
\* whole number v and the double of the literal F / S, where X = v * F.
heldAtOrAbove(X, S, v, F) ==
    IF X <= 0 THEN TRUE
    ELSE LET k == lastBit(X, S)
             R == gridPosition(X, S, k)
             r == R % S
             kc == IF v = 0 THEN k ELSE lastBit(F, S)
             err == IF v = 0 THEN 0 ELSE v * literalError(F, S)
             D == IF k <= kc THEN S * powerOfTwo(kc - k) ELSE S
             N == IF k <= kc THEN r * powerOfTwo(kc - k) + err
                             ELSE r + err * powerOfTwo(k - kc)
             \* the exact product lies N / D bits above the grid point below X / S
             qd == (N - (N % D)) \div D
             rem == N % D
             odd == (R >= S) # (qd % 2 = 1)
             rb == IF 2 * rem > D \/ (2 * rem = D /\ odd) THEN 1 ELSE 0
         IN qd + rb >= 1 \/ (r = 0 /\ qd + rb >= 0)

minutelyRecord(minute) ==
    [time |-> isoOf(Get(minute, "dt")),
     precipitation |-> Or(safeParseFloat(Get(minute, "precipitation")), Num(0))]

\* A forEach that pushes record(item) for each item until one raises.
RECURSIVE scanMinutely(_, _, _)
scanMinutely(items, i, acc) ==
    IF i > Len(items) THEN acc
    ELSE IF isoThrows(Get(items[i], "dt")) THEN acc
    ELSE scanMinutely(items, i + 1, Append(acc, minutelyRecord(items[i])))

\* Lines 369-380.
parseMinutely(owm) ==
    IF IsArr(Get(owm, "minutely")) THEN scanMinutely(owm.minutely.a, 1, <<>>) ELSE <<>>

\* Line 379: the call of logMessage in the catch, when a minute raises.
minutelyCalls(owm) ==
    IF IsArr(Get(owm, "minutely"))
       THEN IF \E i \in 1..Len(owm.minutely.a) : isoThrows(Get(owm.minutely.a[i], "dt"))
               THEN <<warnCall("minutely forecast", InvalidTime)>>
               ELSE <<>>
    ELSE IF Nullish(Get(owm, "minutely")) THEN <<>>
    ELSE <<warnCall("minutely forecast", "raw_owm?.minutely?.forEach is not a function")>>

\* weather[0]?.description of a weather array.
firstDescription(weather) ==
    IF Len(weather.a) = 0 THEN Undefined ELSE Get(weather.a[1], "description")

\* weather[0]?.description of any value but null and undefined: a value that
\* is no array has no description at [0].
descriptionAt0(weather) ==
    IF IsArr(weather) THEN firstDescription(weather) ELSE Undefined

\* hour?.pop * 100 as parseInt reads it, pop being in hundredths: the whole
\* number below when the double product falls short of it.
popTimes100(pop) ==
    LET p == Times(pop, 1)
    IN IF IsNum(p) /\ ~heldAtOrAbove(100 * p.n, 100, 100, p.n) THEN Num(p.n - 1) ELSE p

\* hour?.weather[0] raises when hour is an object whose weather is null or
\* undefined; any other value that is no array reads as undefined at [0].
hourThrows(hour) ==
    \/ isoThrows(Get(hour, "dt"))
    \/ ~Nullish(hour) /\ Nullish(hour.weather)
    \/ ~Nullish(hour) /\ ~Nullish(hour.weather)
          /\ parseWeatherCondition(Or(descriptionAt0(hour.weather), Null)) = Throw

\* hour.pop is kept in hundredths, so that hour.pop * 100 is the percentage.
hourlyRecord(hour) ==
    LET description == IF Nullish(hour) THEN Undefined ELSE descriptionAt0(hour.weather)
    IN [time |-> isoOf(Get(hour, "dt")),
        temperature |-> Or(safeParseFloat(Get(hour, "temp")), Null),
        feels_like |-> Or(safeParseFloat(Get(hour, "feels_like")), Null),
        humidity |-> Or(safeParseInt(Get(hour, "humidity")), Null),
        wind_speed |-> Or(safeParseFloat(Get(hour, "wind_speed")), Null),
        wind_direction |-> Or(safeParseInt(Get(hour, "wind_deg")), Null),
        condition |-> Or(parseWeatherCondition(Or(description, Null)), Unknown(description)),
        cloud_cover |-> Or(safeParseInt(Get(hour, "clouds")), Null),
        precipitation_probability |-> Or(safeParseInt(popTimes100(Get(hour, "pop"))), Num(0))]

RECURSIVE scanHourly(_, _, _)
scanHourly(items, i, acc) ==
    IF i > Len(items) THEN acc
    ELSE IF hourThrows(items[i]) THEN acc
    ELSE scanHourly(items, i + 1, Append(acc, hourlyRecord(items[i])))

\* Lines 382-400.
parseHourly(owm) ==
    IF IsArr(Get(owm, "hourly")) THEN scanHourly(owm.hourly.a, 1, <<>>) ELSE <<>>

\* e.message of the error that hourThrows(hour) tells of: the time is built
\* first (line 386), then the condition (line 392).
hourError(hour) ==
    IF isoThrows(Get(hour, "dt")) THEN InvalidTime
    ELSE IF Nullish(hour.weather) THEN cannotRead(hour.weather, "0")
    ELSE NoToLowerCase

\* The call of line 152 made for one hour, when line 392 gets as far.
hourCalls(hour) ==
    IF isoThrows(Get(hour, "dt")) THEN <<>>
    ELSE IF Nullish(hour) THEN <<conditionCall(Null)>>
    ELSE IF Nullish(hour.weather) THEN <<>>
    ELSE <<conditionCall(Or(descriptionAt0(hour.weather), Null))>>

\* The calls of logMessage of the hours from position i on, and that of the
\* catch (line 399) for the first hour that raises.
RECURSIVE scanHourlyCalls(_, _)
scanHourlyCalls(items, i) ==
    IF i > Len(items) THEN <<>>
    ELSE hourCalls(items[i])
            \o (IF hourThrows(items[i])
                   THEN <<warnCall("hourly forecast", hourError(items[i]))>>
                   ELSE scanHourlyCalls(items, i + 1))

hourlyCalls(owm) ==
    IF IsArr(Get(owm, "hourly")) THEN scanHourlyCalls(owm.hourly.a, 1)
    ELSE IF Nullish(Get(owm, "hourly")) THEN <<>>
    ELSE <<warnCall("hourly forecast", "raw_owm?.hourly?.forEach is not a function")>>

(***************************************************************************)
(* Daily forecast                                                          *)
(***************************************************************************)
\* Temperatures are kept in units of 1/900 K, so that f * 5/9 + 273.15 is the
\* integer f * 500 + 245835 for a whole number f of degrees Fahrenheit.

\* Array.isArray(arr) && arr.length > i ? arr[i] : dflt, i counted from 0.
nwsAt(arr, i, dflt) ==
    IF IsArr(arr) /\ Len(arr.a) > i THEN arr.a[i + 1] ELSE dflt

nwsSeries(nws, group, name) == Get(Get(nws, group), name)

High == Str(<<"High">>)
Low == Str(<<"Low">>)

\* nwsTempLabel of the slot idx.
nwsTempLabelAt(nws, idx) == nwsAt(nwsSeries(nws, "time", "tempLabel"), idx, Null)

\* The loop body taking a "High" slot for a lone night slot.
dailyBranchWithoutPairs(nws, idx) ==
    IF Truthy(nws) /\ nwsTempLabelAt(nws, idx) \in {High, Low} THEN "Low" ELSE "None"

\* The branch the loop body takes at slot idx.
dailyBranch(nws, idx) ==
    IF Truthy(nws) /\ nwsTempLabelAt(nws, idx) = High THEN "High"
    ELSE IF Truthy(nws) /\ nwsTempLabelAt(nws, idx) = Low THEN "Low"
    ELSE "None"

\* safeParseFloat(nwsTempValue * 5/9 + 273.15)
nwsKelvin(nwsTempValue) == safeParseFloat(Plus(Times(nwsTempValue, 500), 245835))

\* Array.isArray(day?.weather) && day.weather.length > 0
\*     ? day.weather[0]?.description : null
dayWeatherDescOf(day) ==
    IF IsArr(Get(day, "weather")) /\ Len(day.weather.a) > 0
       THEN firstDescription(day.weather) ELSE Null

\* The values the loop body computes for one model day read at slot idx.
dailyValues(day, nws, idx) ==
    LET nwsWeather == nwsAt(nwsSeries(nws, "data", "weather"), idx, Null)
        nwsWeatherNext == nwsAt(nwsSeries(nws, "data", "weather"), idx + 1, Null)
        nwsTempValue == nwsAt(nwsSeries(nws, "data", "temperature"), idx, Null)
        nwsTempValueNext == nwsAt(nwsSeries(nws, "data", "temperature"), idx + 1, Null)
        nwsPop == nwsAt(nwsSeries(nws, "data", "pop"), idx, Num(0))
        nwsPopNext == nwsAt(nwsSeries(nws, "data", "pop"), idx + 1, Num(0))
        nwsText == nwsAt(nwsSeries(nws, "data", "text"), idx, Null)
        dayWeatherDesc == dayWeatherDescOf(day)
        max == Get(Get(day, "temp"), "max")
        min == Get(Get(day, "temp"), "min")
        branch == dailyBranch(nws, idx)
    IN CASE branch = "High" ->
              [conditionDay |-> OrT(parseWeatherCondition(Or(nwsWeather, Null)),
                                    OrT(parseWeatherCondition(Or(dayWeatherDesc, Null)),
                                        Unknown(dayWeatherDesc))),
               conditionNight |-> OrT(parseWeatherCondition(Or(nwsWeatherNext, Null)),
                                      Unknown(nwsWeatherNext)),
               highTemp |-> Or(nwsKelvin(nwsTempValue), Or(safeParseFloat(max), Null)),
               lowTemp |-> Or(nwsKelvin(nwsTempValueNext), Or(safeParseFloat(min), Null)),
               precipitationProbabilityDay |-> Or(safeParseInt(nwsPop), Null),
               precipitationProbabilityNight |-> Or(safeParseInt(nwsPopNext), Null),
               description |-> Or(nwsText, Null)]
         [] branch = "Low" ->
              [conditionDay |-> OrT(parseWeatherCondition(Or(dayWeatherDesc, Null)),
                                    Unknown(dayWeatherDesc)),
               conditionNight |-> OrT(parseWeatherCondition(Or(nwsWeather, Null)),
                                      Unknown(nwsWeather)),
               highTemp |-> Or(safeParseFloat(max), Null),
               lowTemp |-> Or(nwsKelvin(nwsTempValue), Or(safeParseFloat(min), Null)),
               precipitationProbabilityDay |-> Null,
               precipitationProbabilityNight |-> Or(safeParseInt(nwsPop), Null),
               description |-> Or(nwsText, Null)]
         [] OTHER ->
              [conditionDay |-> OrT(parseWeatherCondition(Or(dayWeatherDesc, Null)),
                                    Unknown(dayWeatherDesc)),
               conditionNight |-> Unknown(Null),
               highTemp |-> Or(safeParseFloat(max), Null),
               lowTemp |-> Or(safeParseFloat(min), Null),
               precipitationProbabilityDay |-> Null,
               precipitationProbabilityNight |-> Null,
               description |-> Null]

\* The High branch without its nwsindex++.
nextNwsIndexNoSkip(nws, idx) == idx

\* The running index when the loop body ends: the High branch skips the slot
\* it used for the night.
nextNwsIndex(nws, idx) ==
    IF dailyBranch(nws, idx) = "High" THEN idx + 1 ELSE idx

\* The slots of the flat series whose data a day read at slot idx takes.
slotsRead(nws, idx) ==
    CASE dailyBranch(nws, idx) = "High" -> {idx, idx + 1}
      [] dailyBranch(nws, idx) = "Low" -> {idx}
      [] OTHER -> {}

\* Whether a call of parseWeatherCondition raises in the branch (lines
\* 430-449): a condition text that is no string.
conditionThrows(day, nws, idx) ==
    \/ dailyValues(day, nws, idx).conditionDay = Throw
    \/ dailyValues(day, nws, idx).conditionNight = Throw

\* Whether the loop body raises: in the branch, or an invalid date in the
\* pushed record (lines 458-473).
dayThrows(day, nws, idx) ==
    \/ conditionThrows(day, nws, idx)
    \/ isoThrows(Get(day, "dt"))
    \/ isoThrows(Get(day, "sunrise"))
    \/ isoThrows(Get(day, "sunset"))

\* nwsindex when the loop body raises: line 437 has run when the High branch
\* is over and the error comes from the dates of the pushed record.
raisedNwsIndex(day, nws, idx) ==
    IF conditionThrows(day, nws, idx) THEN idx ELSE nextNwsIndex(nws, idx)

\* The texts that the branch passes to parseWeatherCondition for
\* conditionDay and for conditionNight, in the order of the || operands.
dayTexts(day, nws, idx) ==
    LET nwsWeather == nwsAt(nwsSeries(nws, "data", "weather"), idx, Null)
        nwsWeatherNext == nwsAt(nwsSeries(nws, "data", "weather"), idx + 1, Null)
        dayWeatherDesc == dayWeatherDescOf(day)
        branch == dailyBranch(nws, idx)
    IN CASE branch = "High" ->
              [day |-> <<Or(nwsWeather, Null), Or(dayWeatherDesc, Null)>>,
               night |-> <<Or(nwsWeatherNext, Null)>>]
         [] branch = "Low" ->
              [day |-> <<Or(dayWeatherDesc, Null)>>,
               night |-> <<Or(nwsWeather, Null)>>]
         [] OTHER ->
              [day |-> <<Or(dayWeatherDesc, Null)>>,
               night |-> <<>>]

\* The calls of logMessage of one pass of the loop body: those of line 152,
\* and that of the catch (line 476) when the body raises.
dayCalls(day, nws, idx) ==
    chainCalls(dayTexts(day, nws, idx).day)
       \o (IF dailyValues(day, nws, idx).conditionDay = Throw THEN <<>>
           ELSE chainCalls(dayTexts(day, nws, idx).night))
       \o (IF conditionThrows(day, nws, idx)
              THEN <<warnCall("daily forecast", NoToLowerCase)>>
           ELSE IF dayThrows(day, nws, idx)
              THEN <<warnCall("daily forecast", InvalidTime)>>
           ELSE <<>>)

dailyRecord(day, nws, idx) ==
    LET v == dailyValues(day, nws, idx)
    IN [date |-> isoOf(Get(day, "dt")),
        condition |-> v.conditionDay,
        sunrise |-> isoOf(Get(day, "sunrise")),
        sunset |-> isoOf(Get(day, "sunset")),
        high |-> v.highTemp,
        low |-> v.lowTemp,
        precipitation_probability |-> v.precipitationProbabilityDay,
        wind_speed |-> Or(safeParseFloat(Get(day, "wind_speed")), Null),
        wind_direction |-> Or(safeParseInt(Get(day, "wind_deg")), Null),
        description |-> v.description,
        night |-> [condition |-> v.conditionNight,
                   precipitation_probability |-> v.precipitationProbabilityNight]]

(***************************************************************************)
(* Current conditions                                                      *)
(***************************************************************************)
\* Units: temperatures 1/900 K (degrees Fahrenheit whole on input); speeds
\* 1e-5 m/s (mph whole on input); visibility 1e-5 km (miles whole on input,
\* the model's visibility in metres); pressure 1e-4 hPa (inHg whole on input).

\* 255.37222222222223, the literal of lines 493 and 508, in 1/900 K.
SentinelK == (0 - 32) * 500 + 245835

\* x.toFixed(2) of a positive x, in the unit of x: unit is the number of units
\* in 0.01.  toFixed rounds the double that holds x: a value halfway between
\* two hundredths goes up when that double is at or above it, down otherwise.
toFixed2(x, unit, atOrAbove) ==
    LET below == (x.n \div unit) * unit
        rest == x.n % unit
    IN IF 2 * rest > unit \/ (2 * rest = unit /\ atOrAbove)
          THEN Num(below + unit) ELSE Num(below)

isNaN(v) == ~IsNum(ToNumber(v))

observation(nws, name) == Get(Get(nws, "currentobservation"), name)
owmCurrent(owm, name) == Get(Get(owm, "current"), name)

\* Lines 490-494 and 505-509: (((value || 0) - 32) * 5/9) + 273.15, null when
\* it is NaN.  The comparison with 255.37222222222223 on lines 493 and 508 is
\* false for every whole number of degrees: in double arithmetic 0 F gives
\* 255.3722222222222, the double next to the literal, so the value of a
\* missing or zero observation is kept.
fahrenheitObservation(value) ==
    LET k == Plus(Times(Plus(ToNumber(Or(value, Num(0))), -32), 500), 245835)
    IN IF isNaN(k) THEN Null ELSE k

\* Lines 495-504: (value || 0) * 0.44704, null when it is NaN or 0.
mphObservation(value) ==
    LET v == Times(Or(value, Num(0)), 44704)
    IN IF isNaN(v) \/ v = Num(0) THEN Null ELSE v

\* Lines 510-517.
visibilityOf(nws, owm) ==
    LET v == Times(Or(observation(nws, "Visibility"), Num(0)), 160934)
        m == ToNumber(owmCurrent(owm, "visibility"))
        \* ((visibility / 1000) || 0) * 1.60934
        w == IF IsNum(m)
                THEN Num((m.n \div 1000) * 160934 + ((m.n % 1000) * 160934) \div 1000)
                ELSE Num(0)
    IN IF isNaN(v) \/ v = Num(0)
          THEN IF isNaN(w) \/ w = Num(0) THEN Null ELSE w
          ELSE v

\* Lines 518-525.
pressureOf(nws, owm) ==
    LET p == Times(Or(observation(nws, "SLP"), Num(0)), 338639)
        q == Or(owmCurrent(owm, "pressure"), Num(0))
    IN IF isNaN(p) \/ p = Num(0)
          THEN IF isNaN(q) \/ q = Num(0) THEN Null ELSE q
          ELSE p

\* Whether the double in pressure is at or above the value of pressureOf: the
\* product of SLP and 33.8639 (line 520), or the model's pressure as it is
\* (line 522).
pressureAtOrAbove(nws, owm) ==
    LET slp == ToNumber(Or(observation(nws, "SLP"), Num(0)))
    IN IF IsNum(slp) /\ slp.n # 0
          THEN heldAtOrAbove(slp.n * 338639, 10000, slp.n, 338639)
          ELSE heldAtOrAbove(pressureOf(nws, owm).n, 10000, 0, 0)

\* (typeof x === 'number' && !isNaN(x)) ? safeParseFloat(x.toFixed(2)) : fallback,
\* for the temperatures: in units of 1/900 K none is halfway between two
\* hundredths.
fixedOr(x, unit, fallback) ==
    IF IsNum(x) THEN safeParseFloat(toFixed2(x, unit, TRUE)) ELSE fallback

\* (typeof x === 'number' && !isNaN(x) && x !== 0) ? safeParseFloat(x) : fallback
nonZeroOr(x, fallback) ==
    IF IsNum(x) /\ x.n # 0 THEN safeParseFloat(x) ELSE fallback

\* Lines 480-489: the instant, or null on an error or the epoch.
sunOf(value) == IF IsNum(value) /\ Truthy(value) THEN value ELSE Null

\* parseWeatherCondition(raw_owm?.current?.weather[0]?.description || null):
\* Throw when current is an object whose weather is null or undefined; any
\* other value that is no array reads as undefined at [0].
owmCurrentCondition(owm) ==
    IF Nullish(Get(owm, "current")) THEN Null
    ELSE IF Nullish(owm.current.weather) THEN Throw
    ELSE parseWeatherCondition(Or(descriptionAt0(owm.current.weather), Null))

owmCurrentDescription(owm) ==
    IF Nullish(Get(owm, "current")) THEN Undefined
    ELSE IF Nullish(owm.current.weather) THEN Undefined
    ELSE descriptionAt0(owm.current.weather)

\* Line 550.
currentCondition(nws, owm) ==
    OrT(parseWeatherCondition(Or(observation(nws, "Weather"), Null)),
        OrT(owmCurrentCondition(owm),
            Unknown(Or(observation(nws, "Weather"),
                       Or(owmCurrentDescription(owm), Null)))))

\* Lines 535-558.
currentBlock(nws, owm) ==
    [temperature |-> fixedOr(fahrenheitObservation(observation(nws, "Temp")), 9,
                             Or(safeParseFloat(owmCurrent(owm, "temp")), Null)),
     dew_point |-> fixedOr(fahrenheitObservation(observation(nws, "Dewp")), 9,
                           Or(safeParseFloat(owmCurrent(owm, "dew_point")), Null)),
     humidity |-> Or(safeParseInt(owmCurrent(owm, "humidity")), Null),
     wind_speed |-> nonZeroOr(mphObservation(observation(nws, "Winds")),
                              Or(safeParseFloat(owmCurrent(owm, "wind_speed")), Null)),
     wind_gust |-> nonZeroOr(mphObservation(observation(nws, "Gust")),
                             Or(safeParseFloat(owmCurrent(owm, "wind_gust")), Null)),
     wind_direction |-> Or(safeParseInt(observation(nws, "Windd")),
                           Or(safeParseInt(owmCurrent(owm, "wind_deg")), Null)),
     condition |-> currentCondition(nws, owm),
     cloud_cover |-> Or(safeParseInt(owmCurrent(owm, "clouds")), Null),
     visibility |-> nonZeroOr(visibilityOf(nws, owm),
                              Or(safeParseFloat(owmCurrent(owm, "visibility")), Null)),
     pressure |-> IF IsNum(pressureOf(nws, owm)) /\ pressureOf(nws, owm).n # 0
                     THEN safeParseFloat(toFixed2(pressureOf(nws, owm), 100,
                                                  pressureAtOrAbove(nws, owm)))
                     ELSE Or(safeParseFloat(owmCurrent(owm, "pressure")), Null)]

\* The calls of logMessage of lines 479-569: those of line 152 made from line
\* 550, the second only when the first call returns a falsy value and the
\* model's description can be read, and line 569 when the data is returned.
currentCalls(nws, owm) ==
    LET first == Or(observation(nws, "Weather"), Null)
        r == parseWeatherCondition(first)
    IN <<conditionCall(first)>>
          \o (IF r = Throw \/ Truthy(r) THEN <<>>
              ELSE IF Nullish(Get(owm, "current")) THEN <<conditionCall(Null)>>
              ELSE IF Nullish(owm.current.weather) THEN <<>>
              ELSE <<conditionCall(Or(descriptionAt0(owm.current.weather), Null))>>)
          \o (IF currentCondition(nws, owm) = Throw THEN <<>>
              ELSE <<logEntry("Parsed weather data.", "debug")>>)

\* Lines 529-534.
locationBlock(nws, owm) ==
    [wfo |-> Or(Get(Get(nws, "location"), "wfo"), Null),
     nearest_radar |-> Or(Get(Get(nws, "location"), "radar"), Str(<<"international">>)),
     sunrise |-> sunOf(owmCurrent(owm, "sunrise")),
     sunset |-> sunOf(owmCurrent(owm, "sunset"))]

(***************************************************************************)
(* parseWeatherData, section by section                                    *)
(***************************************************************************)
\* Lines 234-280.  The section is in no try block: an error leaves the call.
ParseSpc ==
    /\ pc = "spc"
    /\ LET r == parseSpcRisks(point, spc_outlooks, now, zone)
       IN IF r = Throw
             THEN pc' = "raised" /\ risks' = risks
             ELSE pc' = "mcd" /\ risks' = r.a
    /\ UNCHANGED <<point, polygon, text, result, raw_owm, raw_nws, raw_alerts, spc_outlooks,
                   raw_mcd, now, zone, parsedMcds, parsedalerts, minutelyforecast,
                   hourlyforecast, dailyforecast, nwsindex, dayi, slots, parsedData>>
    /\ UNCHANGED server

\* Lines 282-340.
ParseMcd ==
    /\ pc = "mcd"
    /\ parsedMcds' = parseMcds(point, now, raw_mcd)
    /\ pc' = "alerts"
    /\ UNCHANGED <<point, polygon, text, result, raw_owm, raw_nws, raw_alerts, spc_outlooks,
                   raw_mcd, now, zone, risks, parsedalerts, minutelyforecast,
                   hourlyforecast, dailyforecast, nwsindex, dayi, slots, parsedData>>
    /\ logFile' = logAll(logFile, mcdCalls(point, now, raw_mcd), loglevel)
    /\ UNCHANGED <<loglevel, logCalls, request, cache>>

\* Lines 342-367.
ParseAlerts ==
    /\ pc = "alerts"
    /\ parsedalerts' = parseAlerts(raw_alerts)
    /\ pc' = "minutely"
    /\ UNCHANGED <<point, polygon, text, result, raw_owm, raw_nws, raw_alerts, spc_outlooks,
                   raw_mcd, now, zone, risks, parsedMcds, minutelyforecast,
                   hourlyforecast, dailyforecast, nwsindex, dayi, slots, parsedData>>
    /\ logFile' = logAll(logFile, alertsCalls(raw_alerts), loglevel)
    /\ UNCHANGED <<loglevel, logCalls, request, cache>>

\* Lines 369-380.
ParseMinutely ==
    /\ pc = "minutely"
    /\ minutelyforecast' = parseMinutely(raw_owm)
    /\ pc' = "hourly"
    /\ UNCHANGED <<point, polygon, text, result, raw_owm, raw_nws, raw_alerts, spc_outlooks,
                   raw_mcd, now, zone, risks, parsedMcds, parsedalerts,
                   hourlyforecast, dailyforecast, nwsindex, dayi, slots, parsedData>>
    /\ logFile' = logAll(logFile, minutelyCalls(raw_owm), loglevel)
    /\ UNCHANGED <<loglevel, logCalls, request, cache>>

\* Lines 382-400.
ParseHourly ==
    /\ pc = "hourly"
    /\ hourlyforecast' = parseHourly(raw_owm)
    /\ pc' = "daily"
    /\ UNCHANGED <<point, polygon, text, result, raw_owm, raw_nws, raw_alerts, spc_outlooks,
                   raw_mcd, now, zone, risks, parsedMcds, parsedalerts, minutelyforecast,
                   dailyforecast, nwsindex, dayi, slots, parsedData>>
    /\ logFile' = logAll(logFile, hourlyCalls(raw_owm), loglevel)
    /\ UNCHANGED <<loglevel, logCalls, request, cache>>

\* The model days that raw_owm?.daily?.forEach visits: those of the array;
\* none when daily is null or undefined, and none when it is another value
\* that is no array, for which the call of forEach raises at once.
dailyOf(owm) == IF IsArr(Get(owm, "daily")) THEN owm.daily.a ELSE <<>>

\* Line 476: the call of logMessage in the catch when daily has no forEach.
dailyEndCalls(owm) ==
    IF IsArr(Get(owm, "daily")) \/ Nullish(Get(owm, "daily")) THEN <<>>
    ELSE <<warnCall("daily forecast", "raw_owm?.daily?.forEach is not a function")>>

\* Lines 407-477: one pass of the loop body, for the model day dayi + 1.  An
\* error is caught outside the loop: the catch logs it, and the section ends
\* with the records pushed so far.
DailyStep ==
    /\ pc = "daily"
    /\ dayi < Len(dailyOf(raw_owm))
    /\ LET day == dailyOf(raw_owm)[dayi + 1]
           idx == nwsindex + 1
       IN IF dayThrows(day, raw_nws, idx)
             THEN /\ pc' = "current"
                  /\ nwsindex' = raisedNwsIndex(day, raw_nws, idx)
                  /\ UNCHANGED <<dailyforecast, slots>>
             ELSE /\ pc' = pc
                  /\ nwsindex' = nextNwsIndex(raw_nws, idx)
                  /\ dailyforecast' = Append(dailyforecast, dailyRecord(day, raw_nws, idx))
                  /\ slots' = Append(slots, [index |-> idx,
                                             branch |-> dailyBranch(raw_nws, idx),
                                             read |-> slotsRead(raw_nws, idx)])
    /\ dayi' = dayi + 1
    /\ UNCHANGED <<point, polygon, text, result, raw_owm, raw_nws, raw_alerts, spc_outlooks,
                   raw_mcd, now, zone, risks, parsedMcds, parsedalerts, minutelyforecast,
                   hourlyforecast, parsedData>>
    /\ logFile' = logAll(logFile, dayCalls(dailyOf(raw_owm)[dayi + 1], raw_nws, nwsindex + 1), loglevel)
    /\ UNCHANGED <<loglevel, logCalls, request, cache>>

\* Lines 406-477: the forEach is over, or daily is a value without forEach
\* and the catch logs the TypeError of the call.
DailyDone ==
    /\ pc = "daily"
    /\ dayi >= Len(dailyOf(raw_owm))
    /\ pc' = "current"
    /\ UNCHANGED <<point, polygon, text, result, raw_owm, raw_nws, raw_alerts, spc_outlooks,
                   raw_mcd, now, zone, risks, parsedMcds, parsedalerts, minutelyforecast,
                   hourlyforecast, dailyforecast, nwsindex, dayi, slots, parsedData>>
    /\ logFile' = logAll(logFile, dailyEndCalls(raw_owm), loglevel)
    /\ UNCHANGED <<loglevel, logCalls, request, cache>>

\* Lines 479-571.  Line 550 is in no try block.
BuildResult ==
    /\ pc = "current"
    /\ IF currentCondition(raw_nws, raw_owm) = Throw
          THEN pc' = "raised" /\ parsedData' = parsedData
          ELSE /\ pc' = "done"
               /\ parsedData' =
                     [location |-> locationBlock(raw_nws, raw_owm),
                      current |-> currentBlock(raw_nws, raw_owm),
                      alerts |-> parsedalerts,
                      mesoscale_discussions |-> parsedMcds,
                      forecasts |-> [spc |-> risks,
                                     minutely |-> minutelyforecast,
                                     hourly |-> hourlyforecast,
                                     daily |-> dailyforecast]]
    /\ UNCHANGED <<point, polygon, text, result, raw_owm, raw_nws, raw_alerts, spc_outlooks,
                   raw_mcd, now, zone, risks, parsedMcds, parsedalerts, minutelyforecast,
                   hourlyforecast, dailyforecast, nwsindex, dayi, slots>>
    /\ logFile' = logAll(logFile, currentCalls(raw_nws, raw_owm), loglevel)
    /\ UNCHANGED <<loglevel, logCalls, request, cache>>

\* A direct call parseWeatherCondition(text).  The callers pass
\* description || null; an error leaves the call.
CallParseWeatherCondition ==
    /\ pc = "classify"
    /\ result' = parseWeatherCondition(text)
    /\ pc' = IF parseWeatherCondition(text) = Throw THEN "raised" ELSE "classified"
    /\ UNCHANGED <<point, polygon, text, raw_owm, raw_nws, raw_alerts, spc_outlooks,
                   raw_mcd, now, zone, risks, parsedMcds, parsedalerts, minutelyforecast,
                   hourlyforecast, dailyforecast, nwsindex, dayi, slots, parsedData>>
    /\ logFile' = logAll(logFile, <<conditionCall(text)>>, loglevel)
    /\ UNCHANGED <<loglevel, logCalls, request, cache>>

\* A direct call findColorForAlert(text) with an event name.
CallFindColorForAlert ==
    /\ pc = "color"
    /\ IsStr(text)
    /\ result' = Str(<<findColorForAlert(text.w)>>)
    /\ pc' = "colored"
    /\ UNCHANGED <<point, polygon, text, raw_owm, raw_nws, raw_alerts, spc_outlooks,
                   raw_mcd, now, zone, risks, parsedMcds, parsedalerts, minutelyforecast,
                   hourlyforecast, dailyforecast, nwsindex, dayi, slots, parsedData>>
    /\ UNCHANGED server

\* A direct call pointInPolygon(point, polygon).
CallPointInPolygon ==
    /\ pc = "call"
    /\ result' = pointInPolygon(point, polygon)
    /\ pc' = "returned"
    /\ UNCHANGED <<point, polygon, text, raw_owm, raw_nws, raw_alerts, spc_outlooks,
                   raw_mcd, now, zone, risks, parsedMcds, parsedalerts, minutelyforecast,
                   hourlyforecast, dailyforecast, nwsindex, dayi, slots, parsedData>>
    /\ UNCHANGED server

(***************************************************************************)
(* Direct calls of logMessage                                              *)
(***************************************************************************)
\* The level of the n-th direct call: the levels in turn.
levelOfCall(n) == Levels[((n - 1) % Len(Levels)) + 1]

MaxLogCalls == 1003

\* logMessage is called with the next message.
LogMessage ==
    /\ logCalls < MaxLogCalls
    /\ logCalls' = logCalls + 1
    /\ logFile' = logMessage(logFile, logCalls + 1, levelOfCall(logCalls + 1), loglevel)
    /\ UNCHANGED <<loglevel, parser, request, cache>>

(***************************************************************************)
(* Inputs                                                                  *)
(***************************************************************************)
\* Coordinates of the query points run from -1 to GridMax.
GridMax == 7
Grid == (0 - 1)..GridMax

\* Closed rings, as the upstream feeds give them.
Square(a, b) == <<<<a, a>>, <<b, a>>, <<b, b>>, <<a, b>>, <<a, a>>>>
SquareClockwise(a, b) == <<<<a, a>>, <<a, b>>, <<b, b>>, <<b, a>>, <<a, a>>>>
SquareOpen(a, b) == <<<<b, a>>, <<b, b>>, <<a, b>>, <<a, a>>>>
Triangle == <<<<0, 0>>, <<6, 0>>, <<0, 6>>, <<0, 0>>>>
Diamond == <<<<3, 0>>, <<6, 3>>, <<3, 6>>, <<0, 3>>, <<3, 0>>>>

\* A square with a concentric square hole of a third of its size.
SquareWithHole == <<Square(0, 6), Square(2, 4)>>

Polygons ==
    {<<>>,
     <<Square(0, 6)>>,
     SquareWithHole,
     <<SquareClockwise(0, 6), SquareClockwise(2, 4)>>,
     <<SquareOpen(0, 6), SquareOpen(2, 4)>>,
     <<Square(0, 6), Square(1, 2), Square(4, 5)>>,
     <<Triangle>>,
     <<Triangle, Square(1, 2)>>,
     <<Diamond, Square(2, 4)>>}

\* Documents of a call in which every feed is absent.
NoInputs ==
    /\ raw_owm = Null
    /\ raw_nws = Null
    /\ raw_alerts = Null
    /\ spc_outlooks = Null
    /\ raw_mcd = Null

\* Time zones: UTC; one that stays nine hours ahead; one six hours behind
\* that puts its clocks forward at 02:00 local time of day 11, and one five
\* hours behind that puts them back at 02:00 local time of that day.
UTC == [before |-> 0, after |-> 0, at |-> 0]
NineAhead == [before |-> 540, after |-> 540, at |-> 0]
SpringForward ==
    [before |-> 0 - 360, after |-> 0 - 300, at |-> 11 * MinutesPerDay + 8 * 60]
FallBack ==
    [before |-> 0 - 300, after |-> 0 - 360, at |-> 11 * MinutesPerDay + 7 * 60]
Zones == {UTC, NineAhead, SpringForward, FallBack}

\* The clocks of the calls with an outlook list: 00:30 and 23:30 of day 10.
SpcClocks == {10 * MinutesPerDay + 30, 10 * MinutesPerDay + 23 * 60 + 30}

\* Nothing has been computed yet, and the clock reads clock in zone z.
FreshIn(clock, z) ==
    /\ result = Null
    /\ now = clock
    /\ zone = z
    /\ risks = <<>>
    /\ parsedMcds = <<>>
    /\ parsedalerts = <<>>
    /\ minutelyforecast = <<>>
    /\ hourlyforecast = <<>>
    /\ dailyforecast = <<>>
    /\ nwsindex = 0 - 1
    /\ dayi = 0
    /\ slots = <<>>
    /\ parsedData = Null

FreshAt(clock) == FreshIn(clock, UTC)
Fresh == FreshAt(0)

\* Outlook features.  The priority DN is a number or missing.
properties(dn, label) ==
    [DN |-> dn,
     LABEL |-> Str(<<label>>),
     LABEL2 |-> Str(<<label, "Risk">>),
     fill |-> Str(<<"fill", label>>),
     stroke |-> Str(<<"stroke", label>>)]

Polygon(coordinates) == [type |-> "Polygon", shape |-> "ok", coordinates |-> coordinates]
MultiPolygon(coordinates) ==
    [type |-> "MultiPolygon", shape |-> "ok", coordinates |-> coordinates]
Malformed(type, shape) == [type |-> type, shape |-> shape, coordinates |-> <<>>]

\* (1,3) is in the rank-2 polygon only, (3,3) in its hole, (5,5) in it and in
\* the second member of the rank-4 multi-polygon.
Rank2 == [geometry |-> Polygon(SquareWithHole), properties |-> properties(Num(2), "MRGL")]
Rank4 == [geometry |-> MultiPolygon(<<<<Square(2, 4)>>, <<Square(4, 7)>>>>),
          properties |-> properties(Num(4), "SLGT")]
Rank4Too == [geometry |-> Polygon(<<Square(0, 6)>>), properties |-> properties(Num(4), "ENH")]
Unranked == [geometry |-> Polygon(<<Square(0, 6)>>), properties |-> properties(Undefined, "TSTM")]
NoGeometry == [geometry |-> Null, properties |-> properties(Num(5), "HIGH")]
NoProperties == [geometry |-> Polygon(<<Square(0, 6)>>), properties |-> Undefined]
NoCoordinates == [geometry |-> Malformed("Polygon", "undefined"),
                  properties |-> properties(Num(5), "HIGH")]
PointGeometry == [geometry |-> Malformed("Point", "ok"), properties |-> properties(Num(5), "HIGH")]
NullRing == [geometry |-> Malformed("Polygon", "nullring"), properties |-> properties(Num(1), "MRGL")]
MultiNoCoordinates == [geometry |-> Malformed("MultiPolygon", "undefined"),
                       properties |-> properties(Num(1), "MRGL")]

Features == {Rank2, Rank4, Rank4Too, Unranked, NoGeometry, NoProperties,
             NoCoordinates, PointGeometry, NullRing, MultiNoCoordinates}

\* Sequences over S of length at most n.
SeqUpTo(S, n) == UNION {[1..k -> S] : k \in 0..n}

MaxFeatures == 2

\* An outlook document with a features array, with none, with one that is
\* no array, and a null document.
Outlooks ==
    {[features |-> Arr(fs)] : fs \in SeqUpTo(Features, MaxFeatures)}
    \cup {[features |-> Undefined], [features |-> [t |-> "object"]], Null}

QueryPoints == {<<1, 3>>, <<3, 3>>, <<5, 5>>, <<7, 7>>}

\* A call with one outlook document, every other feed absent.
InitSpc ==
    /\ pc = "spc"
    /\ point \in QueryPoints
    /\ polygon = <<>>
    /\ text = Null
    /\ raw_owm = Null
    /\ raw_nws = Null
    /\ raw_alerts = Null
    /\ spc_outlooks \in {Arr(<<o>>) : o \in Outlooks} \cup {Null}
    /\ raw_mcd = Null
    /\ Fresh

\* The flat series of the national service.  Slot i (from 0) of each data
\* array holds the entry i of a fixed table, repeated when the series is
\* longer; the arrays are as long as the label array, or one shorter.
SlotWeather ==
    <<Str(<<"Sunny">>), Str(<<"Blustery">>), Str(<<"Rain">>), Str(<<"Mostly", "Cloudy">>)>>
SlotTemperature == <<Num(72), Num(55), Str(<<"NA">>), Num(0)>>
SlotPop == <<Num(40), Null, Num(0), Num(20)>>
SlotText == <<Str(<<"Sunny,", "with", "a", "high", "near", "72.">>), Str(<<>>),
              Str(<<"Rain", "likely.">>), Str(<<"Mostly", "cloudy.">>)>>

flatSeries(table, len) == Arr([i \in 1..len |-> table[((i - 1) % Len(table)) + 1]])

nwsForecast(labels, len) ==
    [time |-> [tempLabel |-> Arr(labels)],
     data |-> [weather |-> flatSeries(SlotWeather, len),
               temperature |-> flatSeries(SlotTemperature, len),
               pop |-> flatSeries(SlotPop, len),
               text |-> flatSeries(SlotText, len)],
     currentobservation |-> Undefined,
     location |-> Undefined]

\* Model days: a complete one (max 300 K, min 290 K), one with no weather and
\* no temperatures, and one whose dt is no number.
DayFull ==
    [dt |-> Num(86400), sunrise |-> Num(90000), sunset |-> Num(130000),
     weather |-> Arr(<<[description |-> Str(<<"clear", "sky">>)]>>),
     temp |-> [max |-> Num(270000), min |-> Num(261000)],
     wind_speed |-> Num(500000), wind_deg |-> Num(180)]
DayBare ==
    [dt |-> Num(172800), sunrise |-> Undefined, sunset |-> Undefined,
     weather |-> Undefined, temp |-> Undefined,
     wind_speed |-> Undefined, wind_deg |-> Num(0)]
DayBadDate == [DayFull EXCEPT !.dt = Str(<<"NA">>)]

owmDaily(days) ==
    [current |-> Undefined, minutely |-> Undefined, hourly |-> Undefined, daily |-> Arr(days)]

\* A model document whose daily member is a text.
owmDailyText == [owmDaily(<<>>) EXCEPT !.daily = Str(<<"none">>)]

MaxSlots == 4
MaxDays == 2

\* A call with a model daily array and a national-service flat series.
InitDaily ==
    /\ pc = "spc"
    /\ point = <<1, 3>>
    /\ polygon = <<>>
    /\ text = Null
    /\ raw_owm \in {owmDaily(days) : days \in SeqUpTo({DayFull, DayBare, DayBadDate}, MaxDays)}
                  \cup {owmDailyText}
    /\ \E labels \in SeqUpTo({High, Low}, MaxSlots) :
          \E len \in {Len(labels), Len(labels) - 1} :
             len >= 0 /\ raw_nws = nwsForecast(labels, len)
    /\ raw_alerts = Null
    /\ spc_outlooks = Null
    /\ raw_mcd = Null
    /\ Fresh

\* The current block of the model (300 K, dew point 280 K, 5 m/s, gusts
\* 8 m/s, 10000 m, 1013 hPa) and the observation of the national service
\* (72 F, dew point 50 F, 10 mph, gusts 20 mph, 10 miles, 30 inHg).
OwmCurrentFull ==
    [temp |-> Num(270000), dew_point |-> Num(252000), humidity |-> Num(55),
     wind_speed |-> Num(500000), wind_gust |-> Num(800000), wind_deg |-> Num(180),
     clouds |-> Num(40), visibility |-> Num(10000), pressure |-> Num(10130000),
     sunrise |-> Num(90000), sunset |-> Num(130000),
     weather |-> Arr(<<[description |-> Str(<<"broken", "clouds">>)]>>)]
OwmCurrentNoWeather == [OwmCurrentFull EXCEPT !.weather = Undefined]
OwmCurrentWeatherZero == [OwmCurrentFull EXCEPT !.weather = Num(0)]

ObservationFull ==
    [Temp |-> Num(72), Dewp |-> Num(50), Winds |-> Num(10), Gust |-> Num(20),
     Windd |-> Num(270), Visibility |-> Num(10), SLP |-> Num(30),
     Weather |-> Str(<<"Light", "Rain">>)]

owmWithCurrent(current) ==
    [current |-> current, minutely |-> Undefined, hourly |-> Undefined,
     daily |-> Arr(<<DayFull>>)]

nwsWithObservation(obs) ==
    [time |-> Undefined, data |-> Undefined, currentobservation |-> obs,
     location |-> [wfo |-> Str(<<"LOT">>), radar |-> Str(<<"KLOT">>)]]

\* The fields of the current block that have two sources: the name in the
\* observation and the name in the model's current block.
ObservationFields == {"Temp", "Dewp", "Winds", "Gust", "Windd", "Visibility", "SLP"}
OwmName(f) ==
    CASE f = "Temp" -> "temp" [] f = "Dewp" -> "dew_point" [] f = "Winds" -> "wind_speed"
      [] f = "Gust" -> "wind_gust" [] f = "Windd" -> "wind_deg"
      [] f = "Visibility" -> "visibility" [] f = "SLP" -> "pressure"

\* Every subset of the observation fields is present, with or without the
\* observed weather text; the model's current block is complete, has no
\* weather list, or is missing.
InitCurrentMask ==
    /\ pc = "spc"
    /\ point = <<1, 3>>
    /\ polygon = <<>>
    /\ text = Null
    /\ raw_owm \in {owmWithCurrent(c) : c \in {OwmCurrentFull, OwmCurrentNoWeather,
                                                    OwmCurrentWeatherZero, Undefined}}
    /\ \E present \in SUBSET (ObservationFields \cup {"Weather"}) :
          raw_nws = nwsWithObservation(
                       [f \in DOMAIN ObservationFull |->
                           IF f \in present THEN ObservationFull[f] ELSE Undefined])
    /\ raw_alerts = Null
    /\ spc_outlooks = Null
    /\ raw_mcd = Null
    /\ Fresh

\* One field takes every kind of value in each source: missing, zero, a text
\* that is no number, a regular value, for the model the sentinel, and for
\* the pressure values halfway between two hundredths (250 and 350 inHg,
\* 1013.245 and 1013.255 hPa).
InitCurrentField ==
    /\ pc = "spc"
    /\ point = <<1, 3>>
    /\ polygon = <<>>
    /\ text = Null
    /\ \E f \in ObservationFields :
          /\ \E x \in {Undefined, Num(0), Str(<<"NA">>), ObservationFull[f]}
                       \cup (IF f = "SLP" THEN {Num(250), Num(350)} ELSE {}) :
                raw_nws = nwsWithObservation([ObservationFull EXCEPT ![f] = x])
          /\ \E y \in {Undefined, Num(0), Str(<<"NA">>), OwmCurrentFull[OwmName(f)]}
                       \cup (IF f \in {"Temp", "Dewp"} THEN {Num(SentinelK)} ELSE {})
                       \cup (IF f = "SLP" THEN {Num(10132450), Num(10132550)} ELSE {}) :
                raw_owm = owmWithCurrent([OwmCurrentFull EXCEPT ![OwmName(f)] = y])
    /\ raw_alerts = Null
    /\ spc_outlooks = Null
    /\ raw_mcd = Null
    /\ Fresh

\* Model hours and minutes: complete, all zero, empty, with texts that are no
\* numbers, an hour without a weather list, one whose weather is a text, one
\* with showers and a pop of 0.29 (whose product with 100 is held below 29),
\* and a minute whose dt is no number.
HourFull ==
    [dt |-> Num(3600), temp |-> Num(270000), feels_like |-> Num(269100),
     humidity |-> Num(55), wind_speed |-> Num(500000), wind_deg |-> Num(180),
     weather |-> Arr(<<[description |-> Str(<<"light", "rain">>)]>>),
     clouds |-> Num(40), pop |-> Num(40)]
HourZero ==
    [dt |-> Num(7200), temp |-> Num(270000), feels_like |-> Num(269100),
     humidity |-> Num(0), wind_speed |-> Num(0), wind_deg |-> Num(0),
     weather |-> Arr(<<[description |-> Str(<<"clear", "sky">>)]>>),
     clouds |-> Num(0), pop |-> Num(0)]
HourBare ==
    [dt |-> Undefined, temp |-> Undefined, feels_like |-> Undefined,
     humidity |-> Undefined, wind_speed |-> Undefined, wind_deg |-> Undefined,
     weather |-> Arr(<<>>), clouds |-> Undefined, pop |-> Undefined]
HourTexts ==
    [dt |-> Num(10800), temp |-> Str(<<"NA">>), feels_like |-> Str(<<"NA">>),
     humidity |-> Str(<<"NA">>), wind_speed |-> Str(<<"NA">>), wind_deg |-> Str(<<"NA">>),
     weather |-> Arr(<<[description |-> Str(<<"squalls">>)]>>),
     clouds |-> Str(<<"NA">>), pop |-> Str(<<"NA">>)]
HourNoWeather == [HourFull EXCEPT !.weather = Undefined]
HourShowers ==
    [HourFull EXCEPT !.weather = Arr(<<[description |-> Str(<<"heavy", "shower", "sleet">>)]>>),
                     !.pop = Num(29)]
HourWeatherText == [HourFull EXCEPT !.weather = Str(<<"Rain">>)]
Hours == {HourFull, HourZero, HourBare, HourTexts, HourNoWeather, HourShowers,
          HourWeatherText}

MinuteFull == [dt |-> Num(60), precipitation |-> Num(25)]
MinuteBare == [dt |-> Undefined, precipitation |-> Undefined]
MinuteBadDate == [dt |-> Str(<<"NA">>), precipitation |-> Num(25)]

MaxHours == 2

\* A call with a model document that has hourly and minutely arrays, and a
\* current block with zero humidity and cloud cover or none.
InitHourly ==
    /\ pc = "spc"
    /\ point = <<1, 3>>
    /\ polygon = <<>>
    /\ text = Null
    /\ \E hours \in SeqUpTo(Hours, MaxHours) :
          \E minutes \in {<<>>, <<MinuteFull, MinuteBare>>, <<MinuteFull, MinuteBadDate, MinuteFull>>} :
             \E current \in {Undefined, OwmCurrentFull,
                             [OwmCurrentFull EXCEPT !.humidity = Num(0), !.clouds = Num(0)]} :
                raw_owm = [current |-> current, minutely |-> Arr(minutes),
                           hourly |-> Arr(hours), daily |-> Arr(<<DayBare>>)]
    /\ raw_nws = Null
    /\ raw_alerts = Null
    /\ spc_outlooks = Null
    /\ raw_mcd = Null
    /\ Fresh

\* A call with a list of outlook documents, some null or without features.
OutlookDocs ==
    {Null,
     [features |-> Undefined],
     [features |-> Arr(<<>>)],
     [features |-> Arr(<<Rank2>>)],
     [features |-> Arr(<<NoGeometry, Rank4, Rank2>>)],
     [features |-> Arr(<<NoProperties, PointGeometry, NoCoordinates>>)]}

MaxOutlooks == 3

InitSpcList ==
    /\ pc = "spc"
    /\ point \in QueryPoints
    /\ polygon = <<>>
    /\ text = Null
    /\ raw_owm = Null
    /\ raw_nws = Null
    /\ raw_alerts = Null
    /\ spc_outlooks \in {Arr(os) : os \in SeqUpTo(OutlookDocs, MaxOutlooks)}
    /\ raw_mcd = Null
    /\ \E clock \in SpcClocks, z \in Zones : FreshIn(clock, z)

\* Mesoscale discussions.  The issue date is 10:00 of day 1, in minutes; the
\* folderpath is "MD 0045 Active Till <token> UTC", or a text without "Till".
IssueDate == MinutesPerDay + 10 * 60
Till(token) == [till |-> TRUE, token |-> token]
NoTill == [till |-> FALSE, token |-> <<>>]

mcdFeature(geometry, folderpath, filedate) ==
    [geometry |-> geometry,
     properties |-> [folderpath |-> folderpath,
                     idp_filedate |-> filedate,
                     name |-> Num(45),
                     popupinfo |-> Str(<<"https://www.spc.noaa.gov/md0045.html">>)]]

Tokens ==
    {<<"1", "1", "3", "0">>, <<"1", "1", "3">>, <<"1", "1", "3", "0", "0">>,
     <<"1", "1", ":", "3">>, <<>>}

Mcds ==
    {mcdFeature(Polygon(SquareWithHole), Till(tok), Num(IssueDate)) : tok \in Tokens}
    \cup {mcdFeature(MultiPolygon(<<<<Square(2, 4)>>, <<Square(0, 2)>>>>),
                     Till(tok), Num(IssueDate)) : tok \in {<<"1", "1", "3", "0">>, <<"1", "1", "3">>}}
    \cup {mcdFeature(Null, Till(<<"1", "1", "3">>), Num(IssueDate)),
          mcdFeature(Malformed("Point", "ok"), Till(<<"1", "1", "3">>), Num(IssueDate)),
          mcdFeature(Polygon(SquareWithHole), NoTill, Num(IssueDate)),
          mcdFeature(Polygon(SquareWithHole), NoTill, Undefined),
          mcdFeature(Polygon(SquareWithHole), NoTill, Null),
          mcdFeature(Polygon(SquareWithHole), Till(<<"1", "1", "3", "0">>), Undefined),
          mcdFeature(Malformed("MultiPolygon", "undefined"), NoTill, Num(IssueDate))}

\* The expiry of the token 1130 on the issue day, and the instants around it.
Expiry == MinutesPerDay + 11 * 60 + 30
Clocks == {Expiry - 1, Expiry, Expiry + 1}

MaxMcds == 2

\* A call with a mesoscale-discussion feed, every other feed absent.
InitMcd ==
    /\ pc = "spc"
    /\ point \in {<<1, 3>>, <<3, 3>>}
    /\ polygon = <<>>
    /\ text = Null
    /\ raw_owm = Null
    /\ raw_nws = Null
    /\ raw_alerts = Null
    /\ spc_outlooks = Null
    /\ raw_mcd \in {[data |-> [features |-> Arr(fs)]] : fs \in SeqUpTo(Mcds, MaxMcds)}
                 \cup {Null, [data |-> Undefined], [data |-> [features |-> Undefined]]}
    /\ \E clock \in Clocks : FreshAt(clock)

\* A discussion issued at 23:00 of day 1 and active "Till 0030 UTC", read at
\* 23:30 of day 1 and at 00:15 and 00:45 of day 2.
LateIssueDate == MinutesPerDay + 23 * 60
OvernightMcds ==
    {mcdFeature(Polygon(SquareWithHole), Till(<<"0", "0", "3", "0">>), Num(LateIssueDate)),
     mcdFeature(Polygon(SquareWithHole), NoTill, Num(LateIssueDate))}
OvernightClocks ==
    {LateIssueDate + 30, 2 * MinutesPerDay + 15, 2 * MinutesPerDay + 45}

\* A call with a feed of discussions issued late in the day.
InitMcdOvernight ==
    /\ pc = "spc"
    /\ point \in {<<1, 3>>, <<3, 3>>}
    /\ polygon = <<>>
    /\ text = Null
    /\ raw_owm = Null
    /\ raw_nws = Null
    /\ raw_alerts = Null
    /\ spc_outlooks = Null
    /\ raw_mcd \in {[data |-> [features |-> Arr(fs)]] : fs \in SeqUpTo(OvernightMcds, MaxMcds)}
    /\ \E clock \in OvernightClocks : FreshAt(clock)

\* Alert features.  A text is a sequence of words, a line break the word "\n".
alertFeature(event, description, instruction) ==
    [properties |->
        [id |-> Str(<<"urn:oid:2.49.0.1.840.0.1">>),
         sent |-> Str(<<"2026-05-01T10:00:00-05:00">>),
         effective |-> Str(<<"2026-05-01T10:00:00-05:00">>),
         expires |-> Str(<<"2026-05-01T18:00:00-05:00">>),
         severity |-> Str(<<"Severe">>),
         areaDesc |-> Str(<<"Cook,", "IL">>),
         event |-> event,
         headline |-> Undefined,
         description |-> description,
         instruction |-> instruction]]

Body == Str(<<"Storms", "\n", "\n", "are", "\n", "likely.">>)
Advice == Str(<<"Stay", "\n", "indoors.">>)

WatchAlert == alertFeature(Str(<<"Severe", "Thunderstorm", "Watch">>), Body, Advice)
WarningAlert == alertFeature(Str(<<"Tornado", "Warning">>), Body, Advice)
StatementAlert == alertFeature(Str(<<"Special", "Weather", "Statement">>), Str(<<>>), Advice)
OutlookAlert == alertFeature(Str(<<"Excessive", "Rainfall", "Outlook">>), Body, Advice)
LowerOutlookAlert ==
    alertFeature(Str(<<"Hazardous", "Weather", "outlook">>), Undefined, Undefined)
NoEventAlert == alertFeature(Undefined, Body, Advice)
NoDescriptionAlert == alertFeature(Str(<<"Flood", "Watch">>), Undefined, Advice)
NoInstructionAlert == alertFeature(Str(<<"Heat", "Advisory">>), Body, Null)
NoPropertiesAlert == [properties |-> Undefined]
WatchNoInstructionAlert ==
    alertFeature(Str(<<"Severe", "Thunderstorm", "Watch">>), Body, Null)

Alerts ==
    {WatchAlert, WarningAlert, StatementAlert, OutlookAlert, LowerOutlookAlert,
     NoEventAlert, NoDescriptionAlert, NoInstructionAlert, NoPropertiesAlert,
     WatchNoInstructionAlert}

MaxAlerts == 3

\* A call with an alert feed, every other feed absent.
InitAlerts ==
    /\ pc = "spc"
    /\ point = <<1, 3>>
    /\ polygon = <<>>
    /\ text = Null
    /\ raw_owm = Null
    /\ raw_nws = Null
    /\ raw_alerts \in {[features |-> Arr(fs)] : fs \in SeqUpTo(Alerts, MaxAlerts)}
                    \cup {Null, [features |-> Undefined]}
    /\ spc_outlooks = Null
    /\ raw_mcd = Null
    /\ Fresh

\* Condition texts: every text of up to MaxWords words of a vocabulary, the
\* texts of the other keywords, and values that are no text.
ConditionWords ==
    {"Light", "Heavy", "Rain", "Snow", "Showers", "Thunderstorm", "Fog", "Hazy",
     "Cloudy", "Mostly", "Partly", "Sunny", "Windy"}

MaxWords == 3

ConditionTexts ==
    {Str(w) : w \in SeqUpTo(ConditionWords, MaxWords)}
    \cup {Str(<<"mist">>), Str(<<"Haze">>), Str(<<"Broken", "Clouds">>),
          Str(<<"clear", "sky">>), Str(<<"Fair">>), Str(<<"Storm">>), Str(<<"Thunder">>),
          Str(<<"partly", "sunny">>), Str(<<"light", "rain">>),
          Str(<<"Heavy", "Thunderstorm">>), Str(<<"Light", "Snow", "Showers">>),
          Str(<<"Mostly", "Partly", "Broken", "Clouds">>), Str(<<"Squalls">>),
          Str(<<"shower", "sleet">>), Str(<<"Heavy", "Showers", "Thunderstorm", "Fog">>)}
    \cup {Null, Undefined, Num(0), Num(5)}

\* A direct call of parseWeatherCondition.
InitCondition ==
    /\ pc = "classify"
    /\ point = <<0, 0>>
    /\ polygon = <<>>
    /\ text \in ConditionTexts
    /\ NoInputs
    /\ Fresh

\* Event names: those of the colour table, and names that are not in it.
TableEvents ==
    {<<"Air", "Quality", "Alert">>, <<"Avalanche", "Warning">>, <<"Dust", "Advisory">>,
     <<"Dust", "Storm", "Warning">>, <<"Flash", "Flood", "Emergency">>,
     <<"Flash", "Flood", "Warning">>, <<"Flood", "Advisory">>, <<"Flood", "Warning">>,
     <<"Flood", "Watch">>, <<"Marine", "Weather", "Statement">>,
     <<"PDS", "Tornado", "Warning">>, <<"Severe", "Thunderstorm", "Warning">>,
     <<"Snow", "Squall", "Warning">>, <<"Special", "Marine", "Warning">>,
     <<"Special", "Weather", "Statement">>, <<"Tornado", "Emergency">>,
     <<"Tornado", "Warning">>, <<"Tropical", "Storm", "Watch">>,
     <<"Winter", "Storm", "Warning">>, <<"Winter", "Weather", "Advisory">>,
     <<"Winter", "Storm", "Watch">>, <<"Ice", "Storm", "Warning">>,
     <<"High", "Wind", "Warning">>, <<"Extreme", "Cold", "Warning">>,
     <<"Heat", "Advisory">>, <<"Heat", "Warning">>, <<"Red", "Flag", "Warning">>,
     <<"Extreme", "Wind", "Warning">>}

OtherEvents ==
    {<<"Severe", "Thunderstorm", "Watch">>, <<"Tornado", "Watch">>,
     <<"Hurricane", "Warning">>, <<"Storm", "Watch", "Warning">>,
     <<"Warning", "Watch">>, <<"Tornado", "Warnings">>, <<"Flood", "Watches">>,
     <<"Dense", "Fog", "Advisory">>, <<"tornado", "warning">>, <<"flood", "watch">>,
     <<"Tornado", "Warning", "Extended">>, <<"Heat">>, <<>>}

\* A direct call of findColorForAlert.
InitColor ==
    /\ pc = "color"
    /\ point = <<0, 0>>
    /\ polygon = <<>>
    /\ text \in {Str(e) : e \in TableEvents \cup OtherEvents}
    /\ NoInputs
    /\ Fresh

\* A direct call of pointInPolygon.
InitGeometry ==
    /\ pc = "call"
    /\ text = Null
    /\ point \in Grid \X Grid
    /\ polygon \in Polygons
    /\ NoInputs
    /\ Fresh

\* The statuses before any fetch (lines 66-71).
NotFetched ==
    [owm |-> "NOT FETCHED", nws |-> "NOT FETCHED", alerts |-> "NOT FETCHED",
     day1 |-> "NOT FETCHED", day2 |-> "NOT FETCHED", day3 |-> "NOT FETCHED"]

\* Nothing has been logged.
LogIdle == loglevel \in {"debug", "info"} /\ logFile = <<>> /\ logCalls = 0

\* No request is being handled.
RequestIdle ==
    /\ handler = "none"
    /\ apiKey = Undefined
    /\ req = Null
    /\ hpc = "idle"
    /\ fetches = <<>>
    /\ status = NotFetched
    /\ responses = <<>>
    /\ home = <<>>
    /\ appErrors = 0

\* There is no cache file and no refresh.
CacheIdle ==
    /\ spcCache = Undefined
    /\ upc = <<>>
    /\ fetched = <<>>
    /\ refreshes = 0
    /\ cachedDays = {}

\* parseWeatherData is not running.
ParserIdle ==
    /\ pc = "idle"
    /\ point = <<0, 0>>
    /\ polygon = <<>>
    /\ text = Null
    /\ NoInputs
    /\ Fresh

\* A call of the parser or of one of its functions, outside any server.
Init ==
    /\ LogIdle
    /\ RequestIdle
    /\ CacheIdle
    /\ \/ InitGeometry
       \/ InitSpc
       \/ InitDaily
       \/ InitCurrentMask
       \/ InitCurrentField
       \/ InitHourly
       \/ InitSpcList
       \/ InitMcd
       \/ InitMcdOvernight
       \/ InitAlerts
       \/ InitCondition
       \/ InitColor

Next ==
    \/ ParseSpc
    \/ ParseMcd
    \/ ParseAlerts
    \/ ParseMinutely
    \/ ParseHourly
    \/ DailyStep
    \/ DailyDone
    \/ BuildResult
    \/ CallPointInPolygon
    \/ CallParseWeatherCondition
    \/ CallFindColorForAlert

Spec == Init /\ [][Next]_vars

(***************************************************************************)
(* The log file under a sequence of logMessage calls                       *)
(***************************************************************************)
\* The process starts without a log file, at any configured level.
LogInit ==
    /\ loglevel \in {Levels[i] : i \in 1..Len(Levels)}
    /\ logFile = <<>>
    /\ logCalls = 0
    /\ RequestIdle
    /\ CacheIdle
    /\ ParserIdle

LogNext == LogMessage

LogSpec == LogInit /\ [][LogNext]_vars

(***************************************************************************)
(* The /onecall handlers: index.js, the server with the timers, and the    *)
(* server with the retry and the outlook cache.  A handler runs from one   *)
(* await to the next in one step;                                          *)
(* the documents raw_owm, raw_nws, raw_alerts and the three outlooks are   *)
(* its locals, handed to parseWeatherData as they are.                     *)
(***************************************************************************)
\* The response bodies of the upstream endpoints.
OwmBodies == {owmWithCurrent(OwmCurrentFull), owmWithCurrent(OwmCurrentNoWeather)}
NwsBody == nwsWithObservation(ObservationFull)
AlertsBody == [features |-> Arr(<<WarningAlert>>)]
OutlookBody == [features |-> Arr(<<Rank2>>)]

\* The model document left as it was declared.
LeftNull == Null

\* The object {} as the model, national-service and alert document.
EmptyOwm == [current |-> Undefined, minutely |-> Undefined, hourly |-> Undefined,
             daily |-> Undefined]
EmptyNws == [time |-> Undefined, data |-> Undefined, currentobservation |-> Undefined,
             location |-> Undefined]
EmptyAlerts == [features |-> Undefined]

\* How a fetch and the reading of its body end: with a document, with a
\* rejection, with a body that is no JSON, or (where a timer aborts the
\* fetch) with an AbortError.
IndexOutcomes == {"ok", "reject", "nonjson"}
RetryOutcomes == {"ok", "reject", "nonjson", "abort"}

startFetch(fs, to) == Append(fs, [to |-> to, outcome |-> "pending"])
settle(fs, outcome) == [fs EXCEPT ![Len(fs)].outcome = outcome]

\* parseFloat of a query value of one digit.
parseFloat(q) == Digit(q.w[1])

\* The two checks with the coordinates checked first.
rejectionCoordinatesFirst(key, configured, lat, lon) ==
    IF ~Truthy(lat) \/ ~Truthy(lon) THEN 400
    ELSE IF key # configured THEN 401
    ELSE 0

\* Lines 45-58: the status code the request is rejected with, 0 when it is
\* not: requestApiKey !== apiKey, then !lat || !lon.
rejection(key, configured, lat, lon) ==
    IF key # configured THEN 401
    ELSE IF ~Truthy(lat) \/ ~Truthy(lon) THEN 400
    ELSE 0

errorResponse(code, message) ==
    [code |-> code, body |-> [status |-> "ERROR", code |-> code, message |-> message]]
dataResponse(st, data) == [code |-> 200, body |-> [status |-> st, data |-> data]]

\* The variables of the parser a handler does not write.
parserLocals == <<polygon, text, result, now, zone, risks, parsedMcds, parsedalerts,
                  minutelyforecast, hourlyforecast, dailyforecast, nwsindex, dayi, slots,
                  parsedData>>

\* parseWeatherData([parseFloat(lon), parseFloat(lat)], raw_owm, raw_nws,
\* raw_alerts, [spcRiskD1, spcRiskD2, spcRiskD3]): the call has no sixth
\* argument, raw_mcd is undefined.
CallParseWeatherData ==
    /\ pc' = "spc"
    /\ point' = <<parseFloat(req.lon), parseFloat(req.lat)>>
    /\ raw_mcd' = Undefined
    /\ hpc' = "parsing"
    /\ UNCHANGED parserLocals

\* The handler goes to position next without calling the parser.
GoTo(next) ==
    /\ hpc' = next
    /\ UNCHANGED <<pc, point, raw_mcd, parserLocals>>

\* The other code of the event loop runs between two awaits of a handler or of
\* a refresh, never inside the synchronous call of the parser.
BetweenAwaits == hpc # "parsing"

\* The server listens: the callback of app.listen has run.
Listens == hpc \notin {"idle", "starting"}

\* The events that reach a listening server besides its /onecall request:
\* requests of GET /, 'error' events of the app and firings of the refresh
\* timer.  A behaviour with a request has at most MaxEvents of them.
MaxEvents == 1
events == Len(home) + appErrors + (IF refreshes > 0 THEN refreshes - 1 ELSE 0)

\* index.js lines 166-170 (232-235 and 289-292 in the other servers): the callback
\* of app.listen logs the start; the /onecall request of the behaviour is
\* then at the server.
Listening ==
    /\ hpc = "starting"
    /\ logFile' = logMessage(logFile, "Server started on port", "info", loglevel)
    /\ GoTo("received")
    /\ UNCHANGED <<raw_owm, raw_nws, raw_alerts, spc_outlooks, fetches, status, responses>>
    /\ UNCHANGED <<loglevel, logCalls, handler, apiKey, req, home, appErrors, cache>>

\* index.js lines 31-39 (71-79, 73-81): a request of GET / is answered {status: "OK"}
\* and logged.
GetRoot ==
    /\ Listens
    /\ BetweenAwaits
    /\ events < MaxEvents
    /\ home' = Append(home, [code |-> 200, body |-> [status |-> "OK"]])
    /\ logFile' = logMessage(logFile, "Received request at /", "debug", loglevel)
    /\ UNCHANGED <<parser, cache>>
    /\ UNCHANGED <<loglevel, logCalls, handler, apiKey, req, hpc, fetches, status, responses,
                   appErrors>>

\* index.js lines 174-176 (238-240, 295-297): the listener of the app's 'error' event
\* logs the error.
AppError ==
    /\ Listens
    /\ BetweenAwaits
    /\ events < MaxEvents
    /\ appErrors' = appErrors + 1
    /\ logFile' = logMessage(logFile, "Internal uncaught error", "error", loglevel)
    /\ UNCHANGED <<parser, cache>>
    /\ UNCHANGED <<loglevel, logCalls, handler, apiKey, req, hpc, fetches, status, responses,
                   home>>

\* index.js lines 42-74 (82-117 in the server with the timers, 84-119 in the
\* server with the retry): the request is logged and checked, and the fetch
\* of the model document starts.
OneCall ==
    /\ hpc = "received"
    /\ LET code == rejection(req.key, apiKey, req.lat, req.lon)
           logged == logMessage(logFile, "Received request at /onecall", "debug", loglevel)
       IN CASE code = 401 ->
                 /\ logFile' = logMessage(logged, "Unauthorized access attempt to /onecall",
                                          "warn", loglevel)
                 /\ responses' = Append(responses, errorResponse(401, "Invalid API key"))
                 /\ GoTo("ended")
                 /\ UNCHANGED <<fetches, spc_outlooks>>
            [] code = 400 ->
                 /\ logFile' = logged
                 /\ responses' = Append(responses,
                                        errorResponse(400, "Missing lat or lon parameter"))
                 /\ GoTo("ended")
                 /\ UNCHANGED <<fetches, spc_outlooks>>
            [] OTHER ->
                 /\ logFile' = logged
                 /\ spc_outlooks' = Arr(<<Null, Null, Null>>)
                 /\ fetches' = startFetch(fetches, "owm")
                 /\ GoTo("owm")
                 /\ UNCHANGED responses
    /\ UNCHANGED <<raw_owm, raw_nws, raw_alerts, status>>
    /\ UNCHANGED <<loglevel, logCalls, handler, apiKey, req, home, appErrors, cache>>

\* index.js lines 73-84: the model fetch settles; a failure is answered 500.
IndexOwmSettles ==
    /\ handler = "index"
    /\ hpc = "owm"
    /\ \E outcome \in IndexOutcomes, body \in OwmBodies :
          IF outcome = "ok"
             THEN /\ raw_owm' = body
                  /\ status' = [status EXCEPT !.owm = "OK"]
                  /\ fetches' = startFetch(settle(fetches, outcome), "nws")
                  /\ GoTo("nws")
                  /\ UNCHANGED <<logFile, responses>>
             ELSE /\ logFile' = logMessage(logFile, "Error fetching data from OpenWeatherMap",
                                           "error", loglevel)
                  /\ responses' = Append(responses,
                        errorResponse(500, "Failed to fetch data from OpenWeatherMap"))
                  /\ fetches' = settle(fetches, outcome)
                  /\ GoTo("ended")
                  /\ UNCHANGED <<raw_owm, status>>
    /\ UNCHANGED <<raw_nws, raw_alerts, spc_outlooks>>
    /\ UNCHANGED <<loglevel, logCalls, handler, apiKey, req, home, appErrors, cache>>

\* index.js lines 83-104 (and 142-145 when there is no national-service
\* data): the national-service fetch settles.
IndexNwsSettles ==
    /\ handler = "index"
    /\ hpc = "nws"
    /\ \E outcome \in IndexOutcomes :
          /\ CASE outcome = "ok" ->
                    /\ raw_nws' = NwsBody
                    /\ status' = [status EXCEPT !.nws = "OK"]
                    /\ fetches' = startFetch(settle(fetches, outcome), "alerts")
                    /\ GoTo("alerts")
                    /\ UNCHANGED <<logFile, responses>>
               [] outcome = "nonjson" ->
                    /\ logFile' = logMessage(logFile, "No NWS data available", "debug", loglevel)
                    /\ raw_nws' = EmptyNws
                    /\ status' = [status EXCEPT !.nws = "NO DATA"]
                    /\ fetches' = settle(fetches, outcome)
                    /\ CallParseWeatherData
                    /\ UNCHANGED responses
               [] OTHER ->
                    /\ logFile' = logMessage(logFile, "Error fetching data from NWS",
                                             "error", loglevel)
                    /\ responses' = Append(responses,
                          errorResponse(500, "Failed to fetch data from NWS"))
                    /\ status' = [status EXCEPT !.nws = "FETCH ERROR"]
                    /\ fetches' = settle(fetches, outcome)
                    /\ GoTo("ended")
                    /\ UNCHANGED raw_nws
    /\ UNCHANGED <<raw_owm, raw_alerts, spc_outlooks>>
    /\ UNCHANGED <<loglevel, logCalls, handler, apiKey, req, home, appErrors, cache>>

\* index.js lines 102-113: the alerts fetch settles; on a failure the handler
\* returns.
IndexAlertsSettles ==
    /\ handler = "index"
    /\ hpc = "alerts"
    /\ \E outcome \in IndexOutcomes :
          IF outcome = "ok"
             THEN /\ raw_alerts' = AlertsBody
                  /\ status' = [status EXCEPT !.alerts = "OK"]
                  /\ fetches' = startFetch(settle(fetches, outcome), "day1")
                  /\ GoTo("day1")
                  /\ UNCHANGED logFile
             ELSE /\ logFile' = logMessage(logFile, "Error fetching alert data from NWS",
                                           "error", loglevel)
                  /\ status' = [status EXCEPT !.alerts = "FETCH ERROR"]
                  /\ fetches' = settle(fetches, outcome)
                  /\ GoTo("ended")
                  /\ UNCHANGED raw_alerts
    /\ UNCHANGED <<raw_owm, raw_nws, spc_outlooks, responses>>
    /\ UNCHANGED <<loglevel, logCalls, handler, apiKey, req, home, appErrors, cache>>

\* The days of the outlooks, and the position of the handler at each.
OutlookDays == <<"day1", "day2", "day3">>

\* index.js lines 112-145: the fetch of the outlook of day d settles; the
\* next one starts, or the parser is called.
IndexOutlookSettles ==
    /\ handler = "index"
    /\ \E d \in 1..Len(OutlookDays), outcome \in IndexOutcomes :
          /\ hpc = OutlookDays[d]
          /\ IF outcome = "ok"
                THEN /\ spc_outlooks' = Arr([spc_outlooks.a EXCEPT ![d] = OutlookBody])
                     /\ status' = [status EXCEPT ![OutlookDays[d]] = "OK"]
                     /\ UNCHANGED logFile
                ELSE /\ logFile' = logMessage(logFile, "Error fetching SPC outlook data",
                                              "error", loglevel)
                     /\ spc_outlooks' = Arr([spc_outlooks.a EXCEPT ![d] = Null])
                     /\ status' = [status EXCEPT ![OutlookDays[d]] = "FETCH ERROR"]
          /\ IF d < Len(OutlookDays)
                THEN /\ fetches' = startFetch(settle(fetches, outcome), OutlookDays[d + 1])
                     /\ GoTo(OutlookDays[d + 1])
                ELSE /\ fetches' = settle(fetches, outcome)
                     /\ CallParseWeatherData
    /\ UNCHANGED <<raw_owm, raw_nws, raw_alerts, responses>>
    /\ UNCHANGED <<loglevel, logCalls, handler, apiKey, req, home, appErrors, cache>>

\* index.js lines 142-161 (206-225 in the server with the timers, 215-234 in
\* the server with the retry): the parser has returned and the data are
\* sent, or it has raised and the outer catch answers 500.
Respond ==
    /\ hpc = "parsing"
    /\ pc \in {"done", "raised"}
    /\ IF pc = "done"
          THEN /\ responses' = Append(responses, dataResponse(status, parsedData))
               /\ UNCHANGED logFile
          ELSE /\ logFile' = logMessage(logFile, "Uncaught error at /onecall", "error", loglevel)
               /\ responses' = Append(responses, errorResponse(500, "TypeError"))
    /\ hpc' = "ended"
    /\ UNCHANGED <<parser, cache>>
    /\ UNCHANGED <<loglevel, logCalls, handler, apiKey, req, home, appErrors, fetches, status>>

\* Lines 135-141 (161-171, 191-197): the status of a failed fetch that is not
\* tried again: a timeout for an AbortError, an error otherwise.
failureStatus(outcome) ==
    IF outcome = "abort" THEN "FETCH TIMEOUT" ELSE "FETCH ERROR"

\* The level and the text the failure is logged with, the text up to the
\* message of the error: `${source} fetch timeout: ...` for an AbortError,
\* and otherwise the sentence of the catch of that fetch.
failureLevel(outcome) == IF outcome = "abort" THEN "warn" ELSE "error"
failureText(outcome, source) ==
    IF outcome = "abort" THEN source \o " fetch timeout"
    ELSE CASE source = "OpenWeatherMap" -> "Error fetching data from OpenWeatherMap"
           [] source = "NWS" -> "Error fetching data from NWS"
           [] source = "NWS alerts" -> "Error fetching alert data from NWS"
           [] source = "SPC outlook" -> "Error fetching SPC outlook"

\* Lines 242-253: the cache file as an object, every day null when there is
\* no file.
readSpcCache(file) ==
    IF file = Undefined
       THEN [day1 |-> Null, day2 |-> Null, day3 |-> Null, lastUpdated |-> Null]
       ELSE file

\* The server with the retry, lines 115-125 and 151-155: the first model
\* fetch settles; a failure starts the second fetch.
RetryOwmSettles ==
    /\ handler = "retry"
    /\ hpc = "owm"
    /\ \E outcome \in RetryOutcomes, body \in OwmBodies :
          IF outcome = "ok"
             THEN /\ raw_owm' = body
                  /\ status' = [status EXCEPT !.owm = "OK"]
                  /\ fetches' = startFetch(settle(fetches, outcome), "nws")
                  /\ GoTo("nws")
             ELSE /\ fetches' = startFetch(settle(fetches, outcome), "owm")
                  /\ GoTo("owmRetry")
                  /\ UNCHANGED <<raw_owm, status>>
    /\ UNCHANGED <<raw_nws, raw_alerts, spc_outlooks, responses>>
    /\ UNCHANGED <<logging, handler, apiKey, req, home, appErrors, cache>>

\* Lines 126-155: the second model fetch settles; after a failure the model
\* document is {} and the national-service fetch starts all the same.
RetryOwmAgainSettles ==
    /\ handler = "retry"
    /\ hpc = "owmRetry"
    /\ \E outcome \in RetryOutcomes, body \in OwmBodies :
          /\ IF outcome = "ok"
                THEN /\ raw_owm' = body
                     /\ status' = [status EXCEPT !.owm = "OK"]
                     /\ UNCHANGED logFile
                ELSE /\ logFile' = logMessage(logFile, failureText(outcome, "OpenWeatherMap"),
                                              failureLevel(outcome), loglevel)
                     /\ status' = [status EXCEPT !.owm = failureStatus(outcome)]
                     /\ raw_owm' = EmptyOwm
          /\ fetches' = startFetch(settle(fetches, outcome), "nws")
    /\ GoTo("nws")
    /\ UNCHANGED <<raw_nws, raw_alerts, spc_outlooks, responses>>
    /\ UNCHANGED <<loglevel, logCalls, handler, apiKey, req, home, appErrors, cache>>

\* Lines 151-185 (and 214-218 when the national service gave no document):
\* the national-service fetch settles.
RetryNwsSettles ==
    /\ handler = "retry"
    /\ hpc = "nws"
    /\ \E outcome \in RetryOutcomes :
          IF outcome = "ok"
             THEN /\ raw_nws' = NwsBody
                  /\ status' = [status EXCEPT !.nws = "OK"]
                  /\ fetches' = startFetch(settle(fetches, outcome), "alerts")
                  /\ GoTo("alerts")
                  /\ UNCHANGED logFile
             ELSE /\ logFile' =
                        IF outcome = "nonjson"
                           THEN logMessage(logFile, "No NWS data available", "debug", loglevel)
                           ELSE logMessage(logFile, failureText(outcome, "NWS"),
                                           failureLevel(outcome), loglevel)
                  /\ status' = [status EXCEPT !.nws =
                        IF outcome = "nonjson" THEN "NO DATA" ELSE failureStatus(outcome)]
                  /\ raw_nws' = EmptyNws
                  /\ fetches' = settle(fetches, outcome)
                  /\ CallParseWeatherData
    /\ UNCHANGED <<raw_owm, raw_alerts, spc_outlooks, responses>>
    /\ UNCHANGED <<loglevel, logCalls, handler, apiKey, req, home, appErrors, cache>>

\* Lines 180-218: the alerts fetch settles, the outlooks are read from the
\* cache, and the parser is called.
RetryAlertsSettles ==
    /\ handler = "retry"
    /\ hpc = "alerts"
    /\ \E outcome \in RetryOutcomes :
          LET spcCacheRead == readSpcCache(spcCache)
              cached(doc) == IF Truthy(doc) THEN "CACHED" ELSE "NOT AVAILABLE"
              alerts_status == IF outcome = "ok" THEN "OK" ELSE failureStatus(outcome)
          IN /\ IF outcome = "ok"
                   THEN /\ raw_alerts' = AlertsBody
                        /\ UNCHANGED logFile
                   ELSE /\ logFile' = logMessage(logFile, failureText(outcome, "NWS alerts"),
                                                 failureLevel(outcome), loglevel)
                        /\ raw_alerts' = EmptyAlerts
             /\ spc_outlooks' =
                   Arr(<<spcCacheRead.day1, spcCacheRead.day2, spcCacheRead.day3>>)
             /\ status' = [status EXCEPT !.alerts = alerts_status,
                                         !.day1 = cached(spcCacheRead.day1),
                                         !.day2 = cached(spcCacheRead.day2),
                                         !.day3 = cached(spcCacheRead.day3)]
             /\ fetches' = settle(fetches, outcome)
    /\ CallParseWeatherData
    /\ UNCHANGED <<raw_owm, raw_nws, responses>>
    /\ UNCHANGED <<loglevel, logCalls, handler, apiKey, req, home, appErrors, cache>>

\* A cache file as writeSpcCache leaves it.
cacheFile(day1, day2, day3, lastUpdated) ==
    [day1 |-> day1, day2 |-> day2, day3 |-> day3, lastUpdated |-> lastUpdated]

\* How fetchSpcOutlook ends: with a parsed document; with a status that is
\* not ok, a content type that is not JSON, a body that does not parse, or a
\* rejected fetch; or with the abort of its timer.
SpcOutcomes == {"ok", "httpError", "contentType", "badJson", "reject", "abort"}

\* Lines 29-66: the data fetchSpcOutlook returns, null for every failure.
fetchSpcOutlook(outcome) == IF outcome = "ok" THEN OutlookBody ELSE Null

\* The refreshes of a behaviour: the one awaited at startup and those the
\* interval timer starts.
MaxRefreshes == 3

\* The calls of logMessage of updateSpcCache: at its start (line 269), in
\* fetchSpcOutlook when the fetch fails (lines 58-62), and in writeSpcCache
\* (line 261).
startCalls == <<logEntry("Updating SPC cache...", "debug")>>
outlookCalls(outcome) ==
    IF outcome = "ok" THEN <<>>
    ELSE <<logEntry(failureText(outcome, "SPC outlook"), failureLevel(outcome))>>
writeCalls == <<logEntry("SPC cache updated successfully", "debug")>>

\* The days for which the results of a refresh hold a document.
daysOf(results) ==
    {OutlookDays[k] : k \in {k \in 1..Len(OutlookDays) : results[k] # Null}}

\* The server with the timers, lines 113-142: every fetch runs under a timer
\* that aborts it.  The model fetch settles; after a failure the model
\* document is {} and the national-service fetch starts all the same.
TimerOwmSettles ==
    /\ handler = "timer"
    /\ hpc = "owm"
    /\ \E outcome \in RetryOutcomes, body \in OwmBodies :
          /\ IF outcome = "ok"
                THEN /\ raw_owm' = body
                     /\ status' = [status EXCEPT !.owm = "OK"]
                     /\ UNCHANGED logFile
                ELSE /\ logFile' = logMessage(logFile, failureText(outcome, "OpenWeatherMap"),
                                              failureLevel(outcome), loglevel)
                     /\ status' = [status EXCEPT !.owm = failureStatus(outcome)]
                     /\ raw_owm' = EmptyOwm
          /\ fetches' = startFetch(settle(fetches, outcome), "nws")
    /\ GoTo("nws")
    /\ UNCHANGED <<raw_nws, raw_alerts, spc_outlooks, responses>>
    /\ UNCHANGED <<loglevel, logCalls, handler, apiKey, req, home, appErrors, cache>>

\* Lines 138-172 (and 204-209 when the national service gave no document):
\* the national-service fetch settles.
TimerNwsSettles ==
    /\ handler = "timer"
    /\ hpc = "nws"
    /\ \E outcome \in RetryOutcomes :
          IF outcome = "ok"
             THEN /\ raw_nws' = NwsBody
                  /\ status' = [status EXCEPT !.nws = "OK"]
                  /\ fetches' = startFetch(settle(fetches, outcome), "alerts")
                  /\ GoTo("alerts")
                  /\ UNCHANGED logFile
             ELSE /\ logFile' =
                        IF outcome = "nonjson"
                           THEN logMessage(logFile, "No NWS data available", "debug", loglevel)
                           ELSE logMessage(logFile, failureText(outcome, "NWS"),
                                           failureLevel(outcome), loglevel)
                  /\ status' = [status EXCEPT !.nws =
                        IF outcome = "nonjson" THEN "NO DATA" ELSE failureStatus(outcome)]
                  /\ raw_nws' = EmptyNws
                  /\ fetches' = settle(fetches, outcome)
                  /\ CallParseWeatherData
    /\ UNCHANGED <<raw_owm, raw_alerts, spc_outlooks, responses>>
    /\ UNCHANGED <<loglevel, logCalls, handler, apiKey, req, home, appErrors, cache>>

\* Lines 167-192: the alerts fetch settles, and the fetch of the outlook of
\* day 1 starts whatever its outcome.
TimerAlertsSettles ==
    /\ handler = "timer"
    /\ hpc = "alerts"
    /\ \E outcome \in RetryOutcomes :
          /\ IF outcome = "ok"
                THEN /\ raw_alerts' = AlertsBody
                     /\ status' = [status EXCEPT !.alerts = "OK"]
                     /\ UNCHANGED logFile
                ELSE /\ logFile' = logMessage(logFile, failureText(outcome, "NWS alerts"),
                                              failureLevel(outcome), loglevel)
                     /\ status' = [status EXCEPT !.alerts = failureStatus(outcome)]
                     /\ raw_alerts' = EmptyAlerts
          /\ fetches' = startFetch(settle(fetches, outcome), OutlookDays[1])
    /\ GoTo(OutlookDays[1])
    /\ UNCHANGED <<raw_owm, raw_nws, spc_outlooks, responses>>
    /\ UNCHANGED <<loglevel, logCalls, handler, apiKey, req, home, appErrors, cache>>

\* The outcomes of fetchSpcOutlook tried for the three fetches of a request:
\* every error thrown in it is caught as the rejection is (lines 54-60).
RequestSpcOutcomes == {"ok", "reject", "abort"}

\* Lines 192-209, with fetchSpcOutlook (lines 27-64): the fetch of the outlook
\* of day d settles, its data and its status are kept; the next one starts,
\* or the parser is called.
TimerOutlookSettles ==
    /\ handler = "timer"
    /\ \E d \in 1..Len(OutlookDays), outcome \in RequestSpcOutcomes :
          /\ hpc = OutlookDays[d]
          /\ logFile' = logAll(logFile, outlookCalls(outcome), loglevel)
          /\ spc_outlooks' = Arr([spc_outlooks.a EXCEPT ![d] = fetchSpcOutlook(outcome)])
          /\ status' = [status EXCEPT ![OutlookDays[d]] =
                IF outcome = "ok" THEN "OK" ELSE failureStatus(outcome)]
          /\ IF d < Len(OutlookDays)
                THEN /\ fetches' = startFetch(settle(fetches, outcome), OutlookDays[d + 1])
                     /\ GoTo(OutlookDays[d + 1])
                ELSE /\ fetches' = settle(fetches, outcome)
                     /\ CallParseWeatherData
    /\ UNCHANGED <<raw_owm, raw_nws, raw_alerts, responses>>
    /\ UNCHANGED <<loglevel, logCalls, handler, apiKey, req, home, appErrors, cache>>

\* Lines 268-271: updateSpcCache starts and fetches the outlook of day 1.  The
\* first refresh is the one awaited at startup (line 281); the later ones are
\* started by the interval timer set after it (line 284), whether or not an
\* earlier one is still running.
StartRefresh ==
    /\ handler \in {"none", "retry"}
    /\ BetweenAwaits
    /\ refreshes < MaxRefreshes
    /\ IF refreshes = 0 THEN hpc = "idle" ELSE upc[1] = "done" /\ hpc # "starting"
    /\ handler = "retry" => events < MaxEvents
    /\ refreshes' = refreshes + 1
    /\ logFile' = logAll(logFile, startCalls, loglevel)
    /\ fetched' = Append(fetched, <<>>)
    /\ upc' = Append(upc, OutlookDays[1])
    /\ UNCHANGED <<spcCache, cachedDays, loglevel, logCalls, parser, request>>

\* Lines 271-275, with fetchSpcOutlook and writeSpcCache: the fetch of day d
\* of refresh r ends; after day 3 the file is written with the three results
\* of that refresh, whatever another refresh wrote meanwhile.  The write
\* succeeds; the time of the write is kept as the number of refreshes started
\* by then.
OutlookFetched ==
    \E r \in 1..Len(upc), d \in 1..Len(OutlookDays), outcome \in SpcOutcomes :
       LET results == Append(fetched[r], fetchSpcOutlook(outcome))
       IN /\ BetweenAwaits
          /\ upc[r] = OutlookDays[d]
          /\ fetched' = [fetched EXCEPT ![r] = results]
          /\ IF d < Len(OutlookDays)
                THEN /\ upc' = [upc EXCEPT ![r] = OutlookDays[d + 1]]
                     /\ logFile' = logAll(logFile, outlookCalls(outcome), loglevel)
                     /\ UNCHANGED <<spcCache, cachedDays>>
                ELSE /\ upc' = [upc EXCEPT ![r] = "done"]
                     /\ spcCache' = cacheFile(results[1], results[2], results[3], refreshes)
                     /\ logFile' = logAll(logFile, outlookCalls(outcome) \o writeCalls,
                                          loglevel)
                     /\ cachedDays' = cachedDays \cup daysOf(results)
          /\ UNCHANGED <<refreshes, loglevel, logCalls, parser, request>>

\* The first refresh as a whole, every fetch of it ending as outcomes tells:
\* the file it writes and the calls of logMessage it makes.
firstResults(outcomes) == [k \in 1..Len(OutlookDays) |-> fetchSpcOutlook(outcomes[k])]
firstCalls(outcomes) ==
    startCalls \o outlookCalls(outcomes[1]) \o outlookCalls(outcomes[2])
               \o outlookCalls(outcomes[3]) \o writeCalls

\* How the fetches of the first refresh end in the behaviours with a request.
FirstRefreshes == {<<"ok", "ok", "ok">>, <<"ok", "reject", "ok">>}

\* The configured key of the README, and the keys and coordinates of the
\* requests: no key, the configured one, another one; a lat that is missing,
\* empty or 3; a lon that is missing or 1.
ConfiguredKey == Str(<<"testapikey12345">>)
RequestKeys == {Undefined, ConfiguredKey, Str(<<"guess">>)}
Requests ==
    [key : RequestKeys, lat : {Undefined, Str(<<>>), Str(<<"3">>)},
     lon : {Undefined, Str(<<"1">>)}]

\* One of the three servers has run its top-level code and its app.listen
\* callback is due; API_KEY is set or not.  The server with the cache has
\* awaited its first refresh (line 281), which has written the cache file.
OneCallInit ==
    /\ ParserIdle
    /\ loglevel \in {"debug", "info"}
    /\ logCalls = 0
    /\ handler \in {"index", "timer", "retry"}
    /\ apiKey \in {Undefined, ConfiguredKey}
    /\ req \in Requests
    /\ hpc = "starting"
    /\ fetches = <<>>
    /\ status = NotFetched
    /\ responses = <<>>
    /\ home = <<>>
    /\ appErrors = 0
    /\ IF handler = "retry"
          THEN \E outcomes \in FirstRefreshes :
                  LET results == firstResults(outcomes)
                  IN /\ logFile = logAll(<<>>, firstCalls(outcomes), loglevel)
                     /\ spcCache = cacheFile(results[1], results[2], results[3], 1)
                     /\ upc = <<"done">>
                     /\ fetched = <<results>>
                     /\ refreshes = 1
                     /\ cachedDays = daysOf(results)
          ELSE /\ logFile = <<>>
               /\ CacheIdle

\* The steps of the /onecall handler, the parser it calls included.
HandlerNext ==
    \/ OneCall
    \/ IndexOwmSettles
    \/ IndexNwsSettles
    \/ IndexAlertsSettles
    \/ IndexOutlookSettles
    \/ TimerOwmSettles
    \/ TimerNwsSettles
    \/ TimerAlertsSettles
    \/ TimerOutlookSettles
    \/ RetryOwmSettles
    \/ RetryOwmAgainSettles
    \/ RetryNwsSettles
    \/ RetryAlertsSettles
    \/ ParseSpc
    \/ ParseMcd
    \/ ParseAlerts
    \/ ParseMinutely
    \/ ParseHourly
    \/ DailyStep
    \/ DailyDone
    \/ BuildResult
    \/ Respond

\* The server: its start, the requests of GET /, the 'error' events, the
\* refreshes of the outlook cache, and the /onecall request.
OneCallNext ==
    \/ Listening
    \/ GetRoot
    \/ AppError
    \/ StartRefresh
    \/ OutlookFetched
    \/ HandlerNext

OneCallSpec == OneCallInit /\ [][OneCallNext]_vars

\* The event loop runs the callback of app.listen once the server is bound,
\* and a handler or a refresh as soon as the promise it awaits settles, and
\* here every fetch settles: such a step, once it can be taken, is taken.
FairOneCallSpec ==
    OneCallSpec /\ WF_vars(Listening) /\ WF_vars(HandlerNext) /\ WF_vars(OutlookFetched)

(***************************************************************************)
(* The outlook cache of the server with the retry                          *)
(***************************************************************************)
\* The server starts without a cache file.
CacheInit ==
    /\ ParserIdle
    /\ RequestIdle
    /\ CacheIdle
    /\ loglevel \in {"debug", "info", "error"}
    /\ logFile = <<>>
    /\ logCalls = 0

CacheNext == StartRefresh \/ OutlookFetched

CacheSpec == CacheInit /\ [][CacheNext]_vars

(***************************************************************************)
(* Geometry: properties                                                    *)
(***************************************************************************)
\* The edges of a ring, as pairs of vertex numbers (j, i), j one behind i.
Edges(ring) == {<<IF i = 1 THEN Len(ring) ELSE i - 1, i>> : i \in 1..Len(ring)}

\* Twice the signed area of the triangle a, b, pt.
Cross(a, b, pt) == (b[1] - a[1]) * (pt[2] - a[2]) - (b[2] - a[2]) * (pt[1] - a[1])

\* The point lies on the closed segment from a to b.
OnSegment(a, b, pt) ==
    /\ Cross(a, b, pt) = 0
    /\ (a[1] <= pt[1] /\ pt[1] <= b[1]) \/ (b[1] <= pt[1] /\ pt[1] <= a[1])
    /\ (a[2] <= pt[2] /\ pt[2] <= b[2]) \/ (b[2] <= pt[2] /\ pt[2] <= a[2])

OnRingEdge(pt, ring) == \E e \in Edges(ring) : OnSegment(ring[e[1]], ring[e[2]], pt)

\* The rings above are convex: a point is in the interior exactly when it is
\* strictly on the same side of every edge of non-zero length.
InsideConvex(pt, ring) ==
    LET proper == {e \in Edges(ring) : ring[e[1]] # ring[e[2]]}
    IN \/ \A e \in proper : Cross(ring[e[1]], ring[e[2]], pt) > 0
       \/ \A e \in proper : Cross(ring[e[1]], ring[e[2]], pt) < 0

\* C9: for a point on no ring edge, pointInPolygon is true exactly when the
\* point is inside the outer ring and inside no hole ring; for the square
\* with a concentric hole the centre is excluded, a point between the rings
\* included and a point outside the outer ring excluded.
C9_PointInPolygonOuterMinusHoles ==
    (pc = "returned" /\ \A r \in 1..Len(polygon) : ~OnRingEdge(point, polygon[r]))
    => /\ result = (/\ Len(polygon) > 0
                    /\ InsideConvex(point, polygon[1])
                    /\ \A h \in 2..Len(polygon) : ~InsideConvex(point, polygon[h]))
       /\ polygon = SquareWithHole /\ point = <<3, 3>> => result = FALSE
       /\ polygon = SquareWithHole /\ point = <<1, 3>> => result = TRUE
       /\ polygon = SquareWithHole /\ point = <<7, 3>> => result = FALSE

\* A point between the two rings of the square with a hole is reported inside.
C9_Witness ==
    /\ pc = "returned"
    /\ polygon = SquareWithHole
    /\ point = <<1, 3>>
    /\ result = TRUE

(***************************************************************************)
(* SPC risks: properties                                                   *)
(***************************************************************************)
\* The features array of outlook k (1-based) of the list, empty when the
\* outlook has none.
featuresOf(k) ==
    IF Nullish(spc_outlooks.a[k]) THEN <<>>
    ELSE IF IsArr(spc_outlooks.a[k].features) THEN spc_outlooks.a[k].features.a
    ELSE <<>>

\* The features of outlook k that have geometry and properties and contain
\* the point.
Containing(k) ==
    {i \in 1..Len(featuresOf(k)) :
        /\ Truthy(featuresOf(k)[i].geometry)
        /\ Truthy(featuresOf(k)[i].properties)
        /\ geometryContains(point, featuresOf(k)[i].geometry)}

\* Risk record r carries the label, description and colours of feature f.
CarriesFeature(r, f) ==
    /\ r.level = f.properties.LABEL
    /\ r.description = f.properties.LABEL2
    /\ r.color = f.properties.fill
    /\ r.altcolor = f.properties.stroke

\* The SPC section has run to its end.
SpcParsed == pc \notin {"call", "returned", "spc", "raised"} /\ IsArr(spc_outlooks)

\* C10: the risk record of an outlook is that of a containing feature whose
\* priority DN (0 when absent) is at least that of every other containing
\* feature, whatever the order; with containing features of ranks 2 and 4 the
\* rank-4 feature's label is emitted.
C10_RiskIsHighestPriorityContaining ==
    SpcParsed =>
        \A k \in 1..Len(spc_outlooks.a) :
            Containing(k) # {} =>
                /\ \E i \in Containing(k) :
                      /\ CarriesFeature(risks[k], featuresOf(k)[i])
                      /\ \A j \in Containing(k) :
                            DNof(featuresOf(k)[i]) >= DNof(featuresOf(k)[j])
                /\ {DNof(featuresOf(k)[j]) : j \in Containing(k)} = {2, 4}
                      => \E i \in Containing(k) :
                            /\ DNof(featuresOf(k)[i]) = 4
                            /\ risks[k].level = featuresOf(k)[i].properties.LABEL

\* The rank-4 feature precedes the rank-2 feature, both contain the point,
\* and the rank-4 label is emitted.
C10_Witness ==
    /\ SpcParsed
    /\ point = <<5, 5>>
    /\ spc_outlooks = Arr(<<[features |-> Arr(<<Rank4, Rank2>>)]>>)
    /\ risks[1].level = Str(<<"SLGT">>)

\* C11: forecasts.spc holds one risk record per entry of the outlook list, in
\* the order of the list, record i dated today + i days, today being the UTC
\* date of the call; an entry that is null, has no features, or has no
\* feature with geometry and properties that contains the point yields the
\* "NONE" record with null colours, and only such an entry yields it.
C11_OneRiskPerOutlook ==
    SpcParsed =>
        /\ Len(risks) = Len(spc_outlooks.a)
        /\ pc = "done" => parsedData.forecasts.spc = risks
        /\ \A k \in 1..Len(risks) :
              /\ risks[k].date = isoDate(now) + (k - 1)
              /\ Containing(k) = {} =>
                    /\ risks[k].level = Str(<<"NONE">>)
                    /\ risks[k].description =
                          Str(<<"No thunderstorms forecast for this location.">>)
                    /\ risks[k].color = Null
                    /\ risks[k].altcolor = Null
              /\ risks[k].level = Str(<<"NONE">>) => Containing(k) = {}

(***************************************************************************)
(* Mesoscale discussions: properties                                       *)
(***************************************************************************)
\* The discussions of the feed, none when it has no features array.
discussions ==
    IF Nullish(raw_mcd) THEN <<>>
    ELSE IF Nullish(raw_mcd.data) THEN <<>>
    ELSE IF IsArr(raw_mcd.data.features) THEN raw_mcd.data.features.a
    ELSE <<>>

\* The section has run.
McdParsed == pc \in {"alerts", "minutely", "hourly", "daily", "current", "done"}

\* The token after "Till" is exactly four digits.
FourDigits(m) ==
    /\ m.properties.folderpath.till
    /\ m.properties.folderpath.token \in
          [1..4 -> {"0", "1", "2", "3", "4", "5", "6", "7", "8", "9"}]

\* The discussion has a Polygon or MultiPolygon that contains the point.
ContainsPoint(m) == Truthy(m.geometry) /\ geometryContains(point, m.geometry)

\* The discussion is to be retained: it contains the point, and its expiry
\* is unknown or not before now.  The only four-digit token of the feeds is
\* 1130, of expiry Expiry.
Retained(m) == ContainsPoint(m) /\ (~FourDigits(m) \/ now <= Expiry)

\* No discussion of the feed makes the pass raise an error: each geometry has
\* its coordinates and each issue date is a date.
NoMcdError ==
    \A i \in 1..Len(discussions) :
        /\ Truthy(discussions[i].geometry) => discussions[i].geometry.shape = "ok"
        /\ validDate(discussions[i].properties.idp_filedate)

\* C12: in a pass that raises no error, mesoscale_discussions holds, in feed
\* order, exactly the discussions with a geometry that contains the point and
\* whose expiry is unknown or not before now; a token after "Till" that is
\* not exactly four digits makes the expiry unknown, the discussion being
\* retained with expires null whatever now is.
C12_McdRetainedWhenContainsAndActive ==
    (McdParsed /\ NoMcdError) =>
        LET kept == SelectSeq(discussions, Retained)
        IN /\ Len(parsedMcds) = Len(kept)
           /\ \A i \in 1..Len(kept) :
                 /\ parsedMcds[i].geometry = kept[i].geometry
                 /\ parsedMcds[i].title = kept[i].properties.folderpath
                 /\ parsedMcds[i].expires =
                       IF FourDigits(kept[i]) THEN Num(Expiry) ELSE Null
           /\ pc = "done" => parsedData.mesoscale_discussions = parsedMcds

\* At the instant of the expiry the feed holds a discussion with the token
\* 1130 and one with the three-digit token 113, and both are returned.
C12_Witness ==
    /\ pc = "done"
    /\ now = Expiry
    /\ Len(discussions) = 2
    /\ Len(parsedData.mesoscale_discussions) = 2
    /\ parsedData.mesoscale_discussions[1].expires = Num(Expiry)
    /\ parsedData.mesoscale_discussions[2].expires = Null
    /\ discussions[2].properties.folderpath = Till(<<"1", "1", "3">>)

(***************************************************************************)
(* Sections and errors: properties                                         *)
(***************************************************************************)
\* The items of a section's input array, none when there is no array.
itemsOf(doc, name) == IF IsArr(Get(doc, name)) THEN Get(doc, name).a ELSE <<>>

\* C13: when an item of a section raises an error, the output of the section
\* is the empty array, not the items processed before the error.
C13_ErrorEmptiesSection ==
    /\ (McdParsed /\ \E i \in 1..Len(discussions) :
            Truthy(discussions[i].geometry) /\ geometryThrows(discussions[i].geometry))
          => parsedMcds = <<>>
    /\ (pc \in {"minutely", "hourly", "daily", "current", "done"}
          /\ \E i \in 1..Len(itemsOf(raw_alerts, "features")) :
                alertThrows(itemsOf(raw_alerts, "features")[i]))
          => parsedalerts = <<>>
    /\ (pc \in {"hourly", "daily", "current", "done"}
          /\ \E i \in 1..Len(itemsOf(raw_owm, "minutely")) :
                isoThrows(Get(itemsOf(raw_owm, "minutely")[i], "dt")))
          => minutelyforecast = <<>>
    /\ (pc \in {"daily", "current", "done"}
          /\ \E i \in 1..Len(itemsOf(raw_owm, "hourly")) :
                hourThrows(itemsOf(raw_owm, "hourly")[i]))
          => hourlyforecast = <<>>

(***************************************************************************)
(* Alerts: properties                                                      *)
(***************************************************************************)
\* The features of the alert feed.
alertFeatures == itemsOf(raw_alerts, "features")

\* The alert section has run.
AlertsParsed == pc \in {"minutely", "hourly", "daily", "current", "done"}

\* The feature has its event, description and instruction texts.
WellFormedAlert(alert) ==
    /\ ~Nullish(alert)
    /\ ~Nullish(alert.properties)
    /\ IsStr(alert.properties.event)
    /\ IsStr(alert.properties.description)
    /\ IsStr(alert.properties.instruction)

\* The event text holds "outlook" in some letter case.
NamesOutlook(event) ==
    \E k \in 1..Len(event.w) : event.w[k] \in {"Outlook", "outlook", "OUTLOOK", "Outlooks"}

\* The output holds an alert of this event.
Emitted(event) == \E a \in 1..Len(parsedalerts) : parsedalerts[a].product.event = event

\* C14: an error raised while parsing one alert feature affects that feature
\* only: every well-formed feature after it that is no outlook is in the
\* output.
C14_AlertErrorIsPerFeature ==
    AlertsParsed =>
        \A i, j \in 1..Len(alertFeatures) :
            (i < j /\ alertThrows(alertFeatures[i]) /\ WellFormedAlert(alertFeatures[j])
                   /\ ~NamesOutlook(alertFeatures[j].properties.event))
               => Emitted(alertFeatures[j].properties.event)

\* C15: no alert of the output names an outlook, and the events of the
\* output are, in input order, those of the well-formed features that name
\* none.
C15_OutlooksDroppedOthersKept ==
    AlertsParsed =>
        LET wanted(alert) ==
                WellFormedAlert(alert) /\ ~NamesOutlook(alert.properties.event)
            kept == SelectSeq(alertFeatures, wanted)
            out == SelectSeq(parsedalerts, LAMBDA r : IsStr(r.product.event))
        IN /\ \A a \in 1..Len(parsedalerts) :
                 IsStr(parsedalerts[a].product.event)
                    => ~NamesOutlook(parsedalerts[a].product.event)
           /\ Len(out) = Len(kept)
           /\ \A a \in 1..Len(kept) : out[a].product.event = kept[a].properties.event

\* The colour table, as pairs of an event name and its colour.
ColourTable ==
    {<<"Air Quality Alert", "#768b00">>, <<"Avalanche Warning", "#ff00ff">>,
     <<"Dust Advisory", "#706e00">>, <<"Dust Storm Warning", "#776b00">>,
     <<"Flash Flood Emergency", "#00ff00">>, <<"Flash Flood Warning", "#00ff00">>,
     <<"Flood Advisory", "#00538b">>, <<"Flood Warning", "#1E90FF">>,
     <<"Flood Watch", "#60fd82">>, <<"Marine Weather Statement", "#690083">>,
     <<"PDS Tornado Warning", "#e900dd">>, <<"Severe Thunderstorm Warning", "#f1a500">>,
     <<"Snow Squall Warning", "#0096aa">>, <<"Special Marine Warning", "#8b3300">>,
     <<"Special Weather Statement", "#eeff00">>, <<"Tornado Emergency", "#9f00e9">>,
     <<"Tornado Warning", "#e90000">>, <<"Tropical Storm Watch", "#3f0072">>,
     <<"Winter Storm Warning", "#00d4ff">>, <<"Winter Weather Advisory", "#0087af">>,
     <<"Winter Storm Watch", "#00aaff">>, <<"Ice Storm Warning", "#0047ab">>,
     <<"High Wind Warning", "#ff8000">>, <<"Extreme Cold Warning", "#00ffff">>,
     <<"Heat Advisory", "#ff7000">>, <<"Heat Warning", "#ff2000">>,
     <<"Red Flag Warning", "#ff00c8ff">>, <<"Extreme Wind Warning", "#d400ffff">>}

\* The words of an event name joined by blanks.
RECURSIVE Joined(_)
Joined(w) ==
    IF w = <<>> THEN ""
    ELSE IF Len(w) = 1 THEN w[1]
    ELSE w[1] \o " " \o Joined(Tail(w))

\* The table entries of an event name.
Entries(event) == {p \in ColourTable : p[1] = Joined(event)}

\* The name contains word as a substring: one of its words is it or its plural.
Contains(event, word) ==
    \E k \in 1..Len(event) : event[k] = word \/ event[k] = word \o "s" \/ event[k] = word \o "es"

\* C16: findColorForAlert returns the table colour of an event name that is
\* a table entry, also when the name contains "Warning" or "Watch"; for any
\* other name red when it contains "Warning", else orange when it contains
\* "Watch", else yellow, so that a name with both words is red.
C16_TableThenWarningWatchDefault ==
    pc = "colored" =>
        LET event == text.w
            colour == result.w[1]
        IN /\ Entries(event) # {} => \E p \in Entries(event) : colour = p[2]
           /\ Entries(event) = {} =>
                 colour = IF Contains(event, "Warning") THEN "#FF0000"
                          ELSE IF Contains(event, "Watch") THEN "#FFA500"
                          ELSE "#FFCC00"
           /\ (Entries(event) = {} /\ Contains(event, "Warning") /\ Contains(event, "Watch"))
                 => colour = "#FF0000"

\* A name outside the table with both words is red.
C16_Witness ==
    /\ pc = "colored"
    /\ text = Str(<<"Storm", "Watch", "Warning">>)
    /\ result = Str(<<"#FF0000">>)

\* The feature is an alert of the event "Severe Thunderstorm Watch".
SevereThunderstormWatch == Str(<<"Severe", "Thunderstorm", "Watch">>)
IsWatch(alert) ==
    /\ ~Nullish(alert)
    /\ ~Nullish(alert.properties)
    /\ alert.properties.event = SevereThunderstormWatch

\* C17: every alert of the feed with the event "Severe Thunderstorm Watch" is
\* retained, and its colour is that of an exact-match entry of the colour
\* table, not one of the substring default.
C17_SevereThunderstormWatchFromTable ==
    AlertsParsed =>
        \A i \in 1..Len(alertFeatures) :
            IsWatch(alertFeatures[i]) =>
                \E a \in 1..Len(parsedalerts) :
                    /\ parsedalerts[a].product.event = SevereThunderstormWatch
                    /\ \E p \in Entries(SevereThunderstormWatch.w) :
                          parsedalerts[a].product.color = p[2]

(***************************************************************************)
(* Daily forecast: properties                                              *)
(***************************************************************************)
\* The label array and the temperature array of the flat series.
tempLabels == nwsSeries(raw_nws, "time", "tempLabel")
temperatures == nwsSeries(raw_nws, "data", "temperature")

\* C2: the running index advances by 2 after a day read at a "High" slot and
\* by 1 after a day read at a "Low" slot, and no slot of the flat series is
\* read by two daily records.
C2_IndexAdvance ==
    /\ \A a \in 1..Len(slots) :
          LET step == IF slots[a].branch = "High" THEN 2 ELSE 1
          IN /\ a < Len(slots) => slots[a + 1].index = slots[a].index + step
             /\ (a = Len(slots) /\ pc = "daily") => nwsindex + 1 = slots[a].index + step
             /\ slots[a].branch = "High" => slots[a].read = {slots[a].index, slots[a].index + 1}
             /\ slots[a].branch = "Low" => slots[a].read = {slots[a].index}
    /\ \A a, b \in 1..Len(slots) : a # b => slots[a].read \cap slots[b].read = {}

\* A day read at the "High" slot 0 is followed by a day read at slot 2.
C2_Witness ==
    /\ Len(slots) = 2
    /\ slots[1].branch = "High" /\ slots[1].index = 0
    /\ slots[2].branch = "Low" /\ slots[2].index = 2

\* The label series alternates High, Low, ... and has two labels per model
\* day, the data arrays are as long as it, and no model day is malformed.
Alternating ==
    /\ IsArr(tempLabels)
    /\ Len(dailyOf(raw_owm)) >= 1
    /\ Len(tempLabels.a) = 2 * Len(dailyOf(raw_owm))
    /\ \A i \in 1..Len(tempLabels.a) : tempLabels.a[i] = IF i % 2 = 1 THEN High ELSE Low
    /\ Len(temperatures.a) = Len(tempLabels.a)
    /\ \A d \in 1..Len(dailyOf(raw_owm)) : dailyOf(raw_owm)[d] # DayBadDate

\* C3: for an alternating series of 2n labels and n model days there are
\* exactly n daily records, record k (from 0) reading the slot pair
\* (2k, 2k+1): its day segment is the one computed from slot 2k and its
\* night segment comes from slot 2k+1.
C3_AlternatingPairs ==
    (pc \in {"current", "done"} /\ Alternating) =>
        /\ Len(dailyforecast) = Len(dailyOf(raw_owm))
        /\ \A d \in 1..Len(dailyforecast) :
              LET k == d - 1
                  nightWeather == raw_nws.data.weather.a[2 * k + 2]
                  nightTemp == raw_nws.data.temperature.a[2 * k + 2]
                  dayTemp == raw_nws.data.temperature.a[2 * k + 1]
              IN /\ slots[d].read = {2 * k, 2 * k + 1}
                 /\ dailyforecast[d] = dailyRecord(dailyOf(raw_owm)[d], raw_nws, 2 * k)
                 /\ dailyforecast[d].description = Or(raw_nws.data.text.a[2 * k + 1], Null)
                 /\ dailyforecast[d].night.condition =
                       Or(parseWeatherCondition(nightWeather), Unknown(nightWeather))
                 /\ dailyforecast[d].night.precipitation_probability =
                       Or(safeParseInt(raw_nws.data.pop.a[2 * k + 2]), Null)
                 /\ IsNum(dayTemp) => dailyforecast[d].high = nwsKelvin(dayTemp)
                 /\ (IsNum(nightTemp) /\ nwsKelvin(nightTemp) # Num(0))
                       => dailyforecast[d].low = nwsKelvin(nightTemp)

\* Four labels High, Low, High, Low and two model days: two records, the
\* second read at the pair (2, 3).
C3_Witness ==
    /\ pc = "done"
    /\ Alternating
    /\ Len(tempLabels.a) = 4
    /\ Len(dailyforecast) = 2
    /\ slots[2].read = {2, 3}

\* F_to_K, in units of 1/900 K: (f - 32) * 5/9 + 273.15
FtoK(f) == (f - 32) * 500 + 245835

\* The temperature array holds a number at slot i.
HasTemperature(i) == IsArr(temperatures) /\ Len(temperatures.a) > i /\ IsNum(temperatures.a[i + 1])

\* The temperature array has no slot i.
TemperatureAbsent(i) == ~(IsArr(temperatures) /\ Len(temperatures.a) > i)

\* C4: a high or low taken from the national-service temperature series is
\* F_to_K of the Fahrenheit value of the slot.
C4_NwsTemperatureIsConverted ==
    \A d \in 1..Len(dailyforecast) :
        LET i == slots[d].index IN
        /\ (slots[d].branch = "High" /\ HasTemperature(i))
              => dailyforecast[d].high = Num(FtoK(temperatures.a[i + 1].n))
        /\ (slots[d].branch = "High" /\ HasTemperature(i + 1))
              => dailyforecast[d].low = Num(FtoK(temperatures.a[i + 2].n))
        /\ (slots[d].branch = "Low" /\ HasTemperature(i))
              => dailyforecast[d].low = Num(FtoK(temperatures.a[i + 1].n))

\* C5: when the temperature of the slot that is read is absent, the high or
\* low is the model's max or min of the day, or null.
C5_AbsentTemperatureFallsBack ==
    \A d \in 1..Len(dailyforecast) :
        LET i == slots[d].index
            day == dailyOf(raw_owm)[d]
            max == Or(safeParseFloat(Get(Get(day, "temp"), "max")), Null)
            min == Or(safeParseFloat(Get(Get(day, "temp"), "min")), Null)
        IN /\ (slots[d].branch = "High" /\ TemperatureAbsent(i))
                 => dailyforecast[d].high = max
           /\ (slots[d].branch = "High" /\ TemperatureAbsent(i + 1))
                 => dailyforecast[d].low = min
           /\ (slots[d].branch = "Low" /\ TemperatureAbsent(i))
                 => dailyforecast[d].low = min

(***************************************************************************)
(* Current conditions: properties                                          *)
(***************************************************************************)
\* The call has returned its result.
Returned == pc = "done"

\* The name of field f in the returned current block.
OutName(f) ==
    CASE f = "Temp" -> "temperature" [] f = "Dewp" -> "dew_point" [] f = "Winds" -> "wind_speed"
      [] f = "Gust" -> "wind_gust" [] f = "Windd" -> "wind_direction"
      [] f = "Visibility" -> "visibility" [] f = "SLP" -> "pressure"

\* The observation of field f converted to the output unit (temperatures and
\* pressure rounded to two decimals, a tie by the double that holds it), null when the value is missing, no
\* number, or zero (for a temperature: the conversion of 0 F, the sentinel).
ConvertedObservation(f) ==
    LET v == observation(raw_nws, f) IN
    IF ~IsNum(v) \/ v.n = 0 THEN Null
    ELSE CASE f \in {"Temp", "Dewp"} -> toFixed2(Num(FtoK(v.n)), 9, TRUE)
           [] f \in {"Winds", "Gust"} -> Num(v.n * 44704)
           [] f = "Windd" -> v
           [] f = "Visibility" -> Num(v.n * 160934)
           [] f = "SLP" -> toFixed2(Num(v.n * 338639), 100,
                                    heldAtOrAbove(v.n * 338639, 10000, v.n, 338639))

\* The model's value of field f in the output unit: its visibility is in
\* metres and the output in units of 1e-5 km, its pressure is rounded to two
\* decimals as the observation's is; null when it is missing, no number, or
\* zero.
ModelValue(f) ==
    LET v == owmCurrent(raw_owm, OwmName(f)) IN
    IF ~IsNum(v) \/ v.n = 0 THEN Null
    ELSE IF f = "Visibility" THEN Num(v.n * 100)
    ELSE IF f = "SLP" THEN toFixed2(v, 100, heldAtOrAbove(v.n, 10000, 0, 0))
    ELSE v

\* C6: each two-source field of the current block is the converted
\* observation when that is valid, otherwise the model's value of the same
\* field in the same output unit, otherwise null, whatever the other fields.
C6_CurrentFieldsPerFieldFallback ==
    Returned =>
        \A f \in ObservationFields :
            parsedData.current[OutName(f)] =
                IF ConvertedObservation(f) # Null THEN ConvertedObservation(f)
                ELSE ModelValue(f)

\* C7: the sentinel is treated as absent whichever source produced it: when
\* the observation converts to the sentinel (Temp or Dewp is missing or 0)
\* the output is the model's value of the field, or null, and
\* current.temperature and current.dew_point never equal the sentinel.
C7_SentinelNeverEmitted ==
    Returned =>
        \A f \in {"Temp", "Dewp"} :
            LET v == observation(raw_nws, f)
                out == parsedData.current[OutName(f)]
                model == owmCurrent(raw_owm, OwmName(f))
            IN /\ (~Truthy(v) \/ v = Num(0)) =>
                     out = IF IsNum(model) /\ model.n # 0 /\ model # Num(SentinelK)
                              THEN model ELSE Null
               /\ out # Num(SentinelK)

(***************************************************************************)
(* Zero and no data: properties                                            *)
(***************************************************************************)
\* The output of a field read through a safe-parse helper: null exactly when
\* the source is missing or no number, and the number otherwise, 0 included.
ParsedOrNull(source) == IF IsNum(source) THEN source ELSE Null

\* The hourly section has run, and none of its hours raised.
HourlyComplete ==
    /\ pc \in {"daily", "current", "done"}
    /\ IsArr(Get(raw_owm, "hourly"))
    /\ Len(hourlyforecast) = Len(raw_owm.hourly.a)

\* C8: the fields read through safeParseInt and safeParseFloat are null
\* exactly when the source value is missing or unparsable, and a source
\* value of 0 is emitted as 0 (a probability as the whole percentage the
\* code reads from it).
C8_ZeroIsNotNoData ==
    /\ HourlyComplete =>
          \A h \in 1..Len(hourlyforecast) :
             LET hour == raw_owm.hourly.a[h] IN
             /\ hourlyforecast[h].humidity = ParsedOrNull(hour.humidity)
             /\ hourlyforecast[h].wind_direction = ParsedOrNull(hour.wind_deg)
             /\ hourlyforecast[h].cloud_cover = ParsedOrNull(hour.clouds)
             /\ hourlyforecast[h].precipitation_probability =
                   IF IsNum(hour.pop) THEN popTimes100(hour.pop) ELSE Null
    /\ Returned =>
          /\ parsedData.current.humidity = ParsedOrNull(owmCurrent(raw_owm, "humidity"))
          /\ parsedData.current.cloud_cover = ParsedOrNull(owmCurrent(raw_owm, "clouds"))
    /\ (pc \in {"current", "done"} /\ Len(dailyforecast) = Len(dailyOf(raw_owm))) =>
          \A d \in 1..Len(dailyforecast) :
             dailyforecast[d].wind_direction =
                ParsedOrNull(Get(dailyOf(raw_owm)[d], "wind_deg"))

(***************************************************************************)
(* The whole call: properties                                              *)
(***************************************************************************)
\* C1: parseWeatherData never raises, and what it returns has location,
\* current, alerts, mesoscale_discussions and forecasts.spc, minutely, hourly
\* and daily.
C1_NeverRaises ==
    /\ pc # "raised"
    /\ Returned =>
          /\ DOMAIN parsedData =
                {"location", "current", "alerts", "mesoscale_discussions", "forecasts"}
          /\ DOMAIN parsedData.forecasts = {"spc", "minutely", "hourly", "daily"}

(***************************************************************************)
(* Condition classifier: properties                                        *)
(***************************************************************************)
\* The keywords that occur in a text.
KeywordsOf(w) == UNION {Keywords(w[i]) : i \in 1..Len(w)}

\* The rules after the shower rule, in their order: the keywords that select
\* the rule, and its results by variant 1, 2, 3.
Rules ==
    <<[keys |-> {"rain"},
       out |-> <<<<"Light Rain", 611>>, <<"Heavy Rain", 613>>, <<"Rain", 612>>>>],
      [keys |-> {"snow"},
       out |-> <<<<"Light Snow", 621>>, <<"Heavy Snow", 623>>, <<"Snow", 622>>>>],
      [keys |-> {"storm", "thunder"},
       out |-> <<<<"Light Storm", 631>>, <<"Heavy Storm", 633>>, <<"Storm", 632>>>>],
      [keys |-> {"fog", "mist"},
       out |-> <<<<"Fog", 800>>, <<"Fog", 800>>, <<"Fog", 800>>>>],
      [keys |-> {"haze", "hazy"},
       out |-> <<<<"Haze", 700>>, <<"Haze", 700>>, <<"Haze", 700>>>>],
      [keys |-> {"cloud"},
       out |-> <<<<"Mostly Cloudy", 540>>, <<"Partly Cloudy", 330>>, <<"Cloudy", 500>>>>],
      [keys |-> {"clear", "sun", "fair"},
       out |-> <<<<"Mostly Clear", 240>>, <<"Partly Cloudy", 330>>, <<"Clear", 100>>>>]>>

\* The variant of rule r for the keywords K: for the precipitation rules
\* "light", then "heavy", then neither; for the sky rules "mostly", then
\* "partly" (or "broken" for clouds), then neither.
Variant(r, K) ==
    IF r <= 5
       THEN IF "light" \in K THEN 1 ELSE IF "heavy" \in K THEN 2 ELSE 3
       ELSE IF "mostly" \in K THEN 1
            ELSE IF "partly" \in K \/ (r = 6 /\ "broken" \in K) THEN 2
            ELSE 3

\* The results of the shower rule by intensity, for rain and for snow.
ShowerTable ==
    <<[rain |-> <<"Light Rain Showers", 612>>, snow |-> <<"Light Snow Showers", 611>>],
      [rain |-> <<"Heavy Rain Showers", 632>>, snow |-> <<"Heavy Snow Showers", 631>>],
      [rain |-> <<"Rain Showers", 622>>, snow |-> <<"Snow Showers", 621>>]>>

\* The result of the first rule that the keywords K match; <<>> for none,
\* and for a shower text that names neither rain nor snow.
Classified(K) ==
    IF "shower" \in K
       THEN IF "rain" \in K THEN ShowerTable[Variant(1, K)].rain
            ELSE IF "snow" \in K THEN ShowerTable[Variant(1, K)].snow
            ELSE <<>>
       ELSE LET matching == {r \in 1..Len(Rules) : Rules[r].keys \cap K # {}}
            IN IF matching = {} THEN <<>>
               ELSE LET first == CHOOSE r \in matching : \A q \in matching : r <= q
                    IN Rules[first].out[Variant(first, K)]

\* The result as a pair, <<>> when there is no condition.
AsPair(r) == IF Truthy(r) THEN <<r.condition, r.code>> ELSE <<>>

\* C18: the result of parseWeatherCondition is that of the first rule, in
\* the order shower, rain, snow, storm/thunder, fog/mist, haze/hazy, cloud,
\* clear/sun/fair, that the keywords of the text match, "light" tested before
\* "heavy"; an empty or null text and a text with no keyword give none.
C18_FirstMatchingRuleOfKeywords ==
    pc = "classified" =>
        /\ ~IsStr(text) => result = Null
        /\ IsStr(text) => AsPair(result) = Classified(KeywordsOf(text.w))
        /\ (IsStr(text) /\ KeywordsOf(text.w) = {}) => result = Null
        /\ (IsStr(text) /\ {"rain", "snow"} \subseteq KeywordsOf(text.w)
                       /\ "shower" \notin KeywordsOf(text.w))
              => AsPair(result) \in {<<"Light Rain", 611>>, <<"Heavy Rain", 613>>, <<"Rain", 612>>}
        /\ text = Str(<<"Heavy", "Thunderstorm">>) => AsPair(result) = <<"Heavy Storm", 633>>
        /\ text = Str(<<"partly", "sunny">>) => AsPair(result) = <<"Partly Cloudy", 330>>
        /\ text = Str(<<"Light", "Snow", "Showers">>)
              => AsPair(result) = <<"Light Snow Showers", 611>>

\* A heavy text with "snow" before "rain" and no "shower" is Heavy Rain.
C18_Witness ==
    /\ pc = "classified"
    /\ text = Str(<<"Heavy", "Snow", "Rain">>)
    /\ result = [condition |-> "Heavy Rain", code |-> 613]

\* The description of an hour names showers, but neither rain nor snow.
ShowersOnly(description) ==
    /\ IsStr(description)
    /\ "shower" \in KeywordsOf(description.w)
    /\ KeywordsOf(description.w) \cap {"rain", "snow"} = {}

\* C19: a text with "shower" and neither "rain" nor "snow" is unclassified
\* whatever else it holds, and the hourly forecast emits the Unknown
\* condition, carrying the text, for it.
C19_ShowerWithoutRainOrSnowIsUnknown ==
    /\ (pc = "classified" /\ ShowersOnly(text)) => ~Truthy(result)
    /\ HourlyComplete =>
          \A h \in 1..Len(hourlyforecast) :
             LET description == descriptionAt0(raw_owm.hourly.a[h].weather)
             IN ShowersOnly(description) =>
                   hourlyforecast[h].condition =
                      [condition |-> "Unknown", code |-> 0, raw |-> description]

\* An hour of heavy shower sleet is returned with the Unknown condition.
C19_Witness ==
    /\ pc = "done"
    /\ Len(parsedData.forecasts.hourly) = 1
    /\ parsedData.forecasts.hourly[1].condition.condition = "Unknown"
    /\ parsedData.forecasts.hourly[1].condition.raw = Str(<<"heavy", "shower", "sleet">>)

\* C20: every code of parseWeatherCondition has three digits, the hundreds
\* in 1..8, the tens in 0..3 and the units in 0..3.
C20_CodeDigitsInRange ==
    (pc = "classified" /\ Truthy(result)) =>
        /\ result.code \in 100..999
        /\ result.code \div 100 \in 1..8
        /\ (result.code \div 10) % 10 \in 0..3
        /\ result.code % 10 \in 0..3

(***************************************************************************)
(* Condition records: properties                                           *)
(***************************************************************************)
\* The texts among vs: the non-empty strings.
TextsOf(vs) == {v \in vs : IsStr(v) /\ Truthy(v)}

\* A condition record built from the source texts vs: a classifier result
\* with a non-zero code and no raw field, or the Unknown record with code 0
\* whose raw field is one of the texts, none of which classifies; raw is
\* null (or missing) only when there is no text.
WellFormedCondition(c, vs) ==
    \/ /\ DOMAIN c = {"condition", "code"}
       /\ c.condition # "Unknown"
       /\ c.code # 0
    \/ /\ DOMAIN c = {"condition", "code", "raw"}
       /\ c.condition = "Unknown"
       /\ c.code = 0
       /\ \A v \in TextsOf(vs) : ~Truthy(parseWeatherCondition(v))
       /\ IF TextsOf(vs) = {} THEN Nullish(c.raw) ELSE c.raw \in TextsOf(vs)

\* The national-service weather text of slot idx.
nwsWeatherAt(idx) == nwsAt(nwsSeries(raw_nws, "data", "weather"), idx, Null)

\* C21: every condition record of the output (current, hourly, the day and
\* night segments of daily) is a classifier result without raw, or Unknown
\* with code 0 and the source text that did not classify as raw, raw being
\* null only when the segment had no source text.
C21_ConditionRecordsAreWhole ==
    /\ HourlyComplete =>
          \A h \in 1..Len(hourlyforecast) :
             WellFormedCondition(hourlyforecast[h].condition,
                                 {descriptionAt0(raw_owm.hourly.a[h].weather)})
    /\ \A d \in 1..Len(dailyforecast) :
          LET idx == slots[d].index
              own == dayWeatherDescOf(dailyOf(raw_owm)[d])
          IN /\ WellFormedCondition(dailyforecast[d].condition,
                   IF slots[d].branch = "High" THEN {nwsWeatherAt(idx), own} ELSE {own})
             /\ WellFormedCondition(dailyforecast[d].night.condition,
                   CASE slots[d].branch = "High" -> {nwsWeatherAt(idx + 1)}
                     [] slots[d].branch = "Low" -> {nwsWeatherAt(idx)}
                     [] OTHER -> {})
    /\ Returned =>
          WellFormedCondition(parsedData.current.condition,
                              {observation(raw_nws, "Weather"), owmCurrentDescription(raw_owm)})

(***************************************************************************)
(* Mesoscale discussions: expiry                                           *)
(***************************************************************************)
\* The minutes into the day of a four-digit token HHMM.
MinutesOf(token) ==
    (Digit(token[1]) * 10 + Digit(token[2])) * 60 + Digit(token[3]) * 10 + Digit(token[4])

\* The first instant not before the issue instant whose time of day is the
\* token's: on the issue day, or on the following day when the token's time
\* is earlier in the day than the issue time.
RolledExpiry(m) ==
    LET issue == m.properties.idp_filedate.n
        day == (issue \div MinutesPerDay) * MinutesPerDay
        sameDay == day + MinutesOf(m.properties.folderpath.token)
    IN IF sameDay >= issue THEN sameDay ELSE sameDay + MinutesPerDay

\* C27: every discussion with a computed expiry expires no earlier than it
\* was issued, a Till time earlier in the day than the issue time being on
\* the following UTC day: the records of the output have expires >= issued,
\* and a discussion that contains the point and is read between its issue
\* and that expiry is in the output with that expiry.
C27_ExpiryNotBeforeIssue ==
    (McdParsed /\ NoMcdError) =>
        /\ \A i \in 1..Len(parsedMcds) :
              parsedMcds[i].expires # Null => parsedMcds[i].expires.n >= parsedMcds[i].issued.n
        /\ \A k \in 1..Len(discussions) :
              LET m == discussions[k]
              IN (/\ ContainsPoint(m)
                  /\ FourDigits(m)
                  /\ m.properties.idp_filedate.n <= now
                  /\ now <= RolledExpiry(m))
                 => \E i \in 1..Len(parsedMcds) :
                       /\ parsedMcds[i].title = m.properties.folderpath
                       /\ parsedMcds[i].issued = dateOf(m.properties.idp_filedate)
                       /\ parsedMcds[i].expires = Num(RolledExpiry(m))

(***************************************************************************)
(* Daily forecast: night slots                                             *)
(***************************************************************************)
\* C28: night data comes only from a slot labelled "Low": when the slot
\* after a "High" slot exists and is not labelled "Low", the day read at
\* the "High" slot does not take its night from that slot, and the next
\* day is read at that slot.
C28_NightOnlyFromLowSlot ==
    \A d \in 1..Len(dailyforecast) :
        LET idx == slots[d].index
            labels == nwsSeries(raw_nws, "time", "tempLabel")
        IN (/\ slots[d].branch = "High"
            /\ IsArr(labels)
            /\ Len(labels.a) > idx + 1
            /\ nwsTempLabelAt(raw_nws, idx + 1) # Low)
           => /\ (idx + 1) \notin slots[d].read
              /\ d < Len(dailyforecast) => slots[d + 1].index = idx + 1

(***************************************************************************)
(* Logging: properties                                                     *)
(***************************************************************************)
\* The calls so far that were at or above the configured level, newest first.
WrittenNewestFirst ==
    SelectSeq([i \in 1..logCalls |-> logCalls + 1 - i],
              LAMBDA n : indexOf(levelOfCall(n)) >= indexOf(loglevel))

\* C22: after any sequence of logMessage calls the file holds at most 1000
\* entries, newest first: they are the latest of the entries written, in the
\* reverse of the order of writing, the oldest being dropped.
C22_LogKeepsNewestThousand ==
    LET written == WrittenNewestFirst
        kept == IF Len(written) <= 1000 THEN written ELSE SubSeq(written, 1, 1000)
    IN /\ Len(logFile) <= 1000
       /\ logFile = [i \in 1..Len(kept) |-> logEntry(kept[i], levelOfCall(kept[i]))]

\* More than 1000 entries were written: the file is full, the latest call
\* is its first line and the first call is gone.
C22_Witness ==
    /\ loglevel = "debug"
    /\ logCalls > 1000
    /\ Len(logFile) = 1000
    /\ logFile[1].message = logCalls
    /\ logFile[1000].message = logCalls - 999

(***************************************************************************)
(* The /onecall handlers: properties                                       *)
(***************************************************************************)
\* The handler has checked the request.
Checked == hpc \notin {"idle", "starting", "received"}

\* The request was answered with the one response of this code, and the
\* handler started no fetch and did not call the parser.
RejectedWith(code) ==
    /\ Len(responses) = 1
    /\ responses[1].code = code
    /\ responses[1].body.status = "ERROR"
    /\ fetches = <<>>
    /\ pc = "idle"

\* C23: a request whose key differs from the configured key is answered 401,
\* and otherwise one without lat or lon 400; in both cases no fetch starts
\* and parseWeatherData is not called.  The key is checked first.
C23_RejectedBeforeAnyFetch ==
    Checked =>
        /\ req.key # apiKey => RejectedWith(401)
        /\ (req.key = apiKey /\ (~Truthy(req.lat) \/ ~Truthy(req.lon))) => RejectedWith(400)

\* A request with another key and without lat has been answered 401.
C23_Witness ==
    /\ Checked
    /\ apiKey = ConfiguredKey
    /\ req.key = Str(<<"guess">>)
    /\ req.lat = Undefined
    /\ RejectedWith(401)

\* The fetches of the model document, in order.
OwmFetches == SelectSeq(fetches, LAMBDA f : f.to = "owm")

\* C24: in the server with the retry the model endpoint is fetched at most
\* twice, the second time only after the first fetch failed; once the model
\* stage is over the owm status is OK exactly when a fetch succeeded, and
\* otherwise it is FETCH TIMEOUT or FETCH ERROR, the model document is {},
\* the national-service fetch has started, and the request ends with a data
\* response that carries that status.
C24_RetryOnceThenGoOn ==
    handler = "retry" =>
        /\ Len(OwmFetches) <= 2
        /\ Len(OwmFetches) = 2 => OwmFetches[1].outcome \in {"reject", "nonjson", "abort"}
        /\ (Checked /\ fetches # <<>> /\ hpc \notin {"owm", "owmRetry"}) =>
              LET succeeded == \E i \in 1..Len(OwmFetches) : OwmFetches[i].outcome = "ok"
              IN /\ status.owm = "OK" <=> succeeded
                 /\ ~succeeded =>
                       /\ Len(OwmFetches) = 2
                       /\ status.owm \in {"FETCH TIMEOUT", "FETCH ERROR"}
                       /\ raw_owm = [current |-> Undefined, minutely |-> Undefined,
                                     hourly |-> Undefined, daily |-> Undefined]
                       /\ \E i \in 1..Len(fetches) : fetches[i].to = "nws"
                       /\ hpc = "ended" =>
                             /\ Len(responses) = 1
                             /\ responses[1].code = 200
                             /\ responses[1].body.status.owm = status.owm
                             /\ responses[1].body.data = parsedData
                             /\ pc = "done"

\* Both model fetches timed out and the data were sent all the same.
C24_Witness ==
    /\ handler = "retry"
    /\ hpc = "ended"
    /\ Len(OwmFetches) = 2
    /\ OwmFetches[1].outcome = "abort"
    /\ OwmFetches[2].outcome = "abort"
    /\ Len(responses) = 1
    /\ responses[1].code = 200
    /\ responses[1].body.status.owm = "FETCH TIMEOUT"

\* C25: every request handled by index.js gets exactly one response in the
\* end, however the upstream fetches settle.
C25_ExactlyOneResponse ==
    /\ [](handler = "index" => Len(responses) <= 1)
    /\ (handler = "index" /\ hpc = "received") ~> (Len(responses) = 1)

\* C29: a request gets past the key check of index.js only with a key that
\* equals a configured API key; without API_KEY a request without key is
\* answered 401.
C29_OnlyConfiguredKeyPasses ==
    (handler = "index" /\ Checked) =>
        \/ (IsStr(apiKey) /\ IsStr(req.key) /\ req.key = apiKey)
        \/ (Len(responses) = 1 /\ responses[1].code = 401)

(***************************************************************************)
(* The outlook cache: properties                                           *)
(***************************************************************************)
\* C26: once a refresh has stored a document for a day, readSpcCache never
\* returns null for that day: a later refresh whose fetch for the day fails
\* leaves the cached document in place.
C26_CachedDayStaysCached ==
    \A day \in cachedDays : readSpcCache(spcCache)[day] # Null

====
